---- MODULE Spec2Model ----
(***************************************************************************)
(* Model of unblu_mcp._internal.providers_k8s.K8sConnectionProvider: the   *)
(* port-forward lifecycle (setup / teardown) of several provider instances *)
(* running as separate OS processes on one host, coordinated by a file     *)
(* lock per environment name, together with the external world they act    *)
(* on: kubectl tunnel processes, foreign listeners on the local port, the  *)
(* kubectl executable and its authorization probe.                         *)
(***************************************************************************)
EXTENDS Integers, Sequences, FiniteSets, TLC

\* ---------------------------------------------------------------- bounds
NumInst == 2      \* provider instances (OS processes) on the host
NumEnv == 2       \* environment names in the catalog
MaxOrphans == 1   \* running tunnel processes no handle refers to any more
PollBudget == 2   \* iterations of the readiness loop explored (see WaitIterations)
MaxEnvironments == 2   \* environments in one catalog source
MaxContext == 5   \* characters the context command prints
MaxHeaderText == 4   \* characters of the UNBLU_TRUSTED_HEADERS text parsed

Inst == 1..NumInst
Envs == 1..NumEnv
None == 0

\* Process ids are canonical: the process instance i's handle refers to has
\* pid i; a running process whose handle was overwritten moves to an
\* orphan pid.
OrphanPids == (NumInst + 1)..(NumInst + MaxOrphans)
Pids == Inst \cup OrphanPids

\* ------------------------------------------------------ program constants
\* _wait_for_port(timeout=10.0), in tenths of a second, and the 0.5 s sleep
DefaultTimeoutTenths == 100
SleepTenths == 5
\* self._port_forward_process.wait(timeout=5) in teardown(), in seconds
TeardownGrace == 5

\* int(timeout / 0.5): the number of sleep-then-probe iterations
Iterations(timeoutTenths) == timeoutTenths \div SleepTenths

\* ------------------------------------------------------------------ texts
\* Captured stderr is a sequence of characters over a two-letter alphabet:
\* "d" stands for any visible character, " " for any whitespace.
StderrTexts == { <<>>, <<" ">>, <<"d", " ">> }

RECURSIVE LStrip(_)
LStrip(s) == IF s # <<>> /\ Head(s) = " " THEN LStrip(Tail(s)) ELSE s

RECURSIVE RStrip(_)
RStrip(s) ==
    IF s # <<>> /\ s[Len(s)] = " " THEN RStrip(SubSeq(s, 1, Len(s) - 1)) ELSE s

\* str.strip()
Strip(s) == RStrip(LStrip(s))

\* f"{text or 'default'}"
OrDefault(s, default) == IF s = <<>> THEN <<default>> ELSE s

VARIABLES
    envOf,      \* envOf[i]: the environment name instance i was built for
    pc,         \* pc[i]: where instance i is inside setup() / teardown()
    owns,       \* owns[i]: self._owns_port_forward
    proc,       \* proc[i]: self._port_forward_process (None or a pid)
    fileLock,   \* fileLock[i]: state of the object in self._file_lock
    iter,       \* iter[i]: iterations of _wait_for_port's loop done so far
    ret,        \* ret[i]: instance i's last completed call, while it is idle
    raised,     \* the exception the step just taken raised to its caller
    calls,      \* the calls on the outside world made by the step just taken
    procs,      \* procs[p]: the tunnel process with pid p
    ext,        \* ext[e]: a listener not spawned by any instance holds e's port
    result,     \* what the step just taken returned, for the calls that return a value
    life        \* life[i]: where the server lifespan around instance i is

vars == <<envOf, pc, owns, proc, fileLock, iter, ret, raised, calls, procs, ext,
          result, life>>

FreeSlot == [st |-> "free", env |-> None]

\* no call completed yet, or a call is in progress
NoRet == [op |-> "none", ok |-> TRUE]

\* the step just taken returned no value
NoResult == [op |-> "none", by |-> None, val |-> <<>>]

NoExc == [by |-> None, type |-> "none", cause |-> "none", msg |-> <<>>, stderr |-> <<>>]

Alive(p) == procs[p].st \in {"silent", "listening"}

\* _is_port_in_use(): a TCP connect to the environment's local port succeeds
IsPortInUse(e) ==
    ext[e] \/ \E p \in Pids : procs[p].st = "listening" /\ procs[p].env = e

\* Popen.poll(): "running" stands for None, "exited" for a return code
Poll(p) == IF procs[p].st = "exited" THEN "exited" ELSE "running"

\* Freshly constructed instances, all built for the same environment; a
\* listener left over from an earlier run may hold its port.
Init ==
    /\ envOf = [i \in Inst |-> 1]
    /\ pc = [i \in Inst |-> "idle"]
    /\ owns = [i \in Inst |-> FALSE]
    /\ proc = [i \in Inst |-> None]
    /\ fileLock = [i \in Inst |-> "none"]
    /\ iter = [i \in Inst |-> 0]
    /\ ret = [i \in Inst |-> NoRet]
    /\ raised = NoExc
    /\ calls = <<>>
    /\ procs = [p \in Pids |-> FreeSlot]
    /\ ext \in [Envs -> BOOLEAN]
    /\ \A e \in Envs : ext[e] => \E i \in Inst : envOf[i] = e
    /\ result = NoResult
    /\ life = [i \in Inst |-> "none"]

\* ------------------------------------------------------------- helpers
Min(a, b) == IF a <= b THEN a ELSE b

\* the readiness loop's range(iterations), explored up to PollBudget
WaitIterations == Min(Iterations(DefaultTimeoutTenths), PollBudget)

\* an acquire on one lock file for the whole host, whatever the environment
LockFreeOnHost(i) == ~ \E j \in Inst : j # i /\ fileLock[j] = "locked"

\* an acquire that never finds the lock file held
LockFreeIgnoringHolders(i) == TRUE

\* FileLock.acquire(timeout=0) succeeds iff no other lock object on the
\* same lock file (port-forward-<name>.lock) holds it
LockFree(i) ==
    ~ \E j \in Inst : j # i /\ envOf[j] = envOf[i] /\ fileLock[j] = "locked"

\* the call returns normally
Returned(i, op) == [ret EXCEPT ![i] = [op |-> op, ok |-> TRUE]]

\* the call ends with an exception propagating to the caller
Failed(i, op) == [ret EXCEPT ![i] = [op |-> op, ok |-> FALSE]]

\* a call that takes several steps is in progress: entering it clears the
\* last result, a later step of it leaves the record as it is
InCall(i) == IF pc[i] = "idle" THEN [ret EXCEPT ![i] = NoRet] ELSE ret

\* the call whose start-and-poll sequence instance i is running: setup(),
\* or ensure_connection() re-running that sequence
CallOf(i) == IF pc[i] # "idle" /\ ret[i].op = "ensure" THEN "ensure" ELSE "setup"

\* raise RuntimeError(msg): cause names which of the messages it is, msg
\* is the captured text put into it, stderr the text as it was captured
RuntimeError(i, cause, msg, stderr) ==
    [by |-> i, type |-> "RuntimeError", cause |-> cause, msg |-> msg, stderr |-> stderr]

\* an exception of a library call that reaches the caller of teardown()
Escaped(i, exc) ==
    [by |-> i, type |-> exc, cause |-> exc, msg |-> <<>>, stderr |-> <<>>]

\* one call on the outside world and how it came out: a call on the lock
\* file, on the kubectl executable, or on the process with pid p
Call(name, p, res) == [call |-> name, pid |-> p, timeout |-> None, res |-> res]

\* self._port_forward_process.wait(timeout=5)
WaitCall(p, res) == [call |-> "wait", pid |-> p, timeout |-> TeardownGrace, res |-> res]

\* orphans are anonymous (no handle holds their pid), so the process table
\* keeps them in one fixed order: by environment and state, free slots last
Key(r) == IF r.st = "free" THEN 0
          ELSE 2 * r.env + (IF r.st = "listening" THEN 1 ELSE 0)

Canon(ps) ==
    [p \in Pids |->
        IF p \in Inst THEN ps[p]
        ELSE LET k == p - NumInst
                 Above(q) == Cardinality({x \in OrphanPids : Key(ps[x]) > Key(ps[q])})
                 From(q) == Cardinality({x \in OrphanPids : Key(ps[x]) >= Key(ps[q])})
             IN  ps[CHOOSE q \in OrphanPids : Above(q) < k /\ k <= From(q)]]

\* the process table once instance i has dropped its handle: the Popen
\* object is gone; a process still running stays behind as an orphan
Dropped(ps, i) ==
    IF ps[i].st \in {"silent", "listening"}
    THEN LET o == CHOOSE q \in OrphanPids : ps[q].st = "free"
         IN  Canon([ps EXCEPT ![o] = ps[i], ![i] = FreeSlot])
    ELSE [ps EXCEPT ![i] = FreeSlot]

\* there is room in the model's process table for what Dropped leaves
CanDrop(i) == Alive(i) => \E q \in OrphanPids : procs[q].st = "free"

\* setup() is entered by an instance that still has a lock object:
\* _try_acquire_lock builds a new FileLock object, and the object
\* self._file_lock referred to before is dropped, which releases it if it
\* was locked (FileLock.__del__).
SetupBegin(i) ==
    /\ pc[i] = "idle"
    /\ fileLock[i] # "none"
    /\ pc' = [pc EXCEPT ![i] = "su_acquire"]
    /\ fileLock' = [fileLock EXCEPT ![i] = "unlocked"]
    /\ ret' = InCall(i)
    /\ raised' = NoExc
    /\ calls' = <<>>
    /\ UNCHANGED <<envOf, owns, proc, iter, procs, ext>>
    /\ result' = NoResult /\ UNCHANGED life

\* _try_acquire_lock's acquire(timeout=0) and the branch of setup() on it,
\* up to the first port check; an instance without a lock object gets here
\* straight from the call of setup()
SetupAcquire(i) ==
    /\ pc[i] = "su_acquire" \/ (pc[i] = "idle" /\ fileLock[i] = "none")
    /\ IF LockFree(i)
       THEN /\ fileLock' = [fileLock EXCEPT ![i] = "locked"]
            /\ owns' = [owns EXCEPT ![i] = TRUE]
            /\ IF ~ IsPortInUse(envOf[i])
               THEN /\ pc' = [pc EXCEPT ![i] = "su_start"]
                    /\ ret' = InCall(i)
               ELSE /\ pc' = [pc EXCEPT ![i] = "idle"]
                    /\ ret' = Returned(i, CallOf(i))
       ELSE /\ fileLock' = [fileLock EXCEPT ![i] = "none"]
            /\ owns' = [owns EXCEPT ![i] = FALSE]
            /\ pc' = [pc EXCEPT ![i] = "su_wait"]
            /\ ret' = InCall(i)
    /\ calls' = << Call("acquire", None, IF LockFree(i) THEN "acquired" ELSE "Timeout") >>
    /\ raised' = NoExc
    /\ UNCHANGED <<envOf, proc, iter, procs, ext>>
    /\ result' = NoResult /\ UNCHANGED life

\* the message of the authorization failure: f"... Error: {stderr or 'unknown'}"
\* with stderr = auth_check.stderr.strip()
AuthFailureMsg(stderr) == OrDefault(Strip(stderr), "unknown")

\* an authorization probe whose timeout is reported like a nonzero exit
ProbeCauseGeneric(probe) == "AuthenticationFailure"

\* which of _start_port_forward's two authorization errors a failed probe
\* raises: the one of "except subprocess.TimeoutExpired" or the one of
\* "if auth_check.returncode != 0"
ProbeCause(probe) ==
    IF probe = "timeout" THEN "AuthenticationTimeout" ELSE "AuthenticationFailure"

\* how subprocess.run(["kubectl", "auth", "can-i", ...], timeout=5) came out
ProbeResult(probe) ==
    CASE probe = "timeout" -> "TimeoutExpired"
      [] probe = "nonzero" -> "nonzero"
      [] OTHER -> "zero"

\* a start that runs the authorization probe before it looks for kubectl
ProbeBeforeWhich(kubectl, probe) ==
    << Call("auth", None, ProbeResult(probe)),
       Call("which", None, IF kubectl THEN "found" ELSE "missing") >>

\* a start that spawns the tunnel before it probes, and so once more
\* after every probe
SpawnBeforeProbe(kubectl, probe) ==
    IF ~ kubectl THEN << Call("which", None, "missing") >>
    ELSE << Call("which", None, "found"), Call("Popen", None, "started"),
            Call("auth", None, ProbeResult(probe)) >>

\* the calls of _start_port_forward before Popen: shutil.which("kubectl"),
\* then, only if it was found, the authorization probe
StartCalls(kubectl, probe) ==
    IF ~ kubectl THEN << Call("which", None, "missing") >>
    ELSE << Call("which", None, "found"), Call("auth", None, ProbeResult(probe)) >>

\* _start_port_forward up to and including Popen: shutil.which("kubectl"),
\* the authorization probe, the spawn
SetupStart(i) ==
    /\ pc[i] = "su_start"
    /\ \E kubectl \in BOOLEAN, probe \in {"ok", "nonzero", "timeout"} :
         \/ /\ ~ kubectl
            /\ calls' = StartCalls(kubectl, probe)
            /\ raised' = RuntimeError(i, "ToolNotFound", <<>>, <<>>)
            /\ ret' = Failed(i, CallOf(i))
            /\ pc' = [pc EXCEPT ![i] = "idle"]
            /\ UNCHANGED <<proc, procs>>
         \/ /\ kubectl /\ probe = "timeout"
            /\ calls' = StartCalls(kubectl, probe)
            /\ raised' = RuntimeError(i, ProbeCause(probe), <<>>, <<>>)
            /\ ret' = Failed(i, CallOf(i))
            /\ pc' = [pc EXCEPT ![i] = "idle"]
            /\ UNCHANGED <<proc, procs>>
         \/ /\ kubectl /\ probe = "nonzero"
            /\ calls' = StartCalls(kubectl, probe)
            /\ \E stderr \in StderrTexts :
                 raised' = RuntimeError(i, ProbeCause(probe),
                                        AuthFailureMsg(stderr), stderr)
            /\ ret' = Failed(i, CallOf(i))
            /\ pc' = [pc EXCEPT ![i] = "idle"]
            /\ UNCHANGED <<proc, procs>>
         \/ /\ kubectl /\ probe = "ok"
            /\ CanDrop(i)
            /\ calls' = StartCalls(kubectl, probe) \o << Call("Popen", i, "started") >>
            /\ procs' = [Dropped(procs, i) EXCEPT
                            ![i] = [st |-> "silent", env |-> envOf[i]]]
            /\ proc' = [proc EXCEPT ![i] = i]
            /\ pc' = [pc EXCEPT ![i] = "su_wait"]
            /\ raised' = NoExc
            /\ ret' = ret
    /\ UNCHANGED <<envOf, owns, fileLock, iter, ext>>
    /\ result' = NoResult /\ UNCHANGED life

\* an exited-early message that leaves the captured stderr out
ExitedEarlyMsgUnknown(stderr) == <<"unknown error">>

\* stderr.decode().strip() if stderr else "unknown error"
ExitedEarlyMsg(stderr) == IF stderr # <<>> THEN Strip(stderr) ELSE <<"unknown error">>

\* stderr_text or 'none', with stderr_text = stderr.decode().strip() if stderr else ""
TimeoutMsg(stderr) == OrDefault(IF stderr # <<>> THEN Strip(stderr) ELSE <<>>, "none")

\* a loop counter that does not advance
SameIteration(n) == n

\* "for _ in range(iterations)": the loop variable after one more iteration
NextIteration(n) == n + 1

\* one iteration of _wait_for_port's loop (sleep, port check, process check);
\* the last iteration runs on into the code after the loop
SetupPoll(i) ==
    /\ pc[i] = "su_wait"
    /\ iter[i] < WaitIterations
    /\ LET p == proc[i] IN
       IF IsPortInUse(envOf[i])
       THEN /\ pc' = [pc EXCEPT ![i] = "idle"]
            /\ ret' = Returned(i, CallOf(i))
            /\ raised' = NoExc
            /\ calls' = <<>>
            /\ iter' = [iter EXCEPT ![i] = 0]
            /\ UNCHANGED <<proc, procs>>
       ELSE IF p # None /\ Poll(p) # "running"
       THEN /\ \E stderr \in StderrTexts :
                 raised' = RuntimeError(i, "ProcessExitedEarly",
                                        ExitedEarlyMsg(stderr), stderr)
            /\ calls' = << Call("poll", p, "exited"), Call("communicate", p, "read") >>
            /\ ret' = Failed(i, CallOf(i))
            /\ proc' = [proc EXCEPT ![i] = None]
            /\ procs' = Dropped(procs, i)
            /\ iter' = [iter EXCEPT ![i] = 0]
            /\ pc' = [pc EXCEPT ![i] = "idle"]
       ELSE IF NextIteration(iter[i]) < WaitIterations
       THEN /\ iter' = [iter EXCEPT ![i] = NextIteration(@)]
            /\ raised' = NoExc
            /\ calls' = IF p # None THEN << Call("poll", p, "running") >> ELSE <<>>
            /\ UNCHANGED <<pc, ret, proc, procs>>
       ELSE IF p # None
       THEN /\ calls' = << Call("poll", p, "running"), Call("kill", p, "sent"),
                           Call("communicate", p, "read") >>
            /\ proc' = [proc EXCEPT ![i] = None]
            /\ procs' = Dropped([procs EXCEPT ![p].st = "exited"], i)
            /\ \E stderr \in StderrTexts :
                 raised' = RuntimeError(i, "PortWaitTimeout", TimeoutMsg(stderr), stderr)
            /\ ret' = Failed(i, CallOf(i))
            /\ iter' = [iter EXCEPT ![i] = 0]
            /\ pc' = [pc EXCEPT ![i] = "idle"]
       ELSE /\ raised' = RuntimeError(i, "PortWaitTimeout", <<>>, <<>>)
            /\ calls' = <<>>
            /\ ret' = Failed(i, CallOf(i))
            /\ iter' = [iter EXCEPT ![i] = 0]
            /\ pc' = [pc EXCEPT ![i] = "idle"]
            /\ UNCHANGED <<proc, procs>>
    /\ UNCHANGED <<envOf, owns, fileLock, ext>>
    /\ result' = NoResult /\ UNCHANGED life

\* an instance that will never own anything, whatever it recorded
NeverOwner(i) == FALSE

\* an instance that acts as owner, whatever it recorded
AlwaysOwner(i) == TRUE

\* ---------------------------------------------------------- teardown()
\* an owner that stands back while an instance that lost the lock is still
\* set up on the tunnel
OwnerUnlessShared(i) ==
    /\ owns[i]
    /\ ~ \E j \in Inst : /\ j # i /\ envOf[j] = envOf[i] /\ ~ owns[j]
                         /\ pc[j] = "idle" /\ ret[j] = [op |-> "setup", ok |-> TRUE]

\* "if self._owns_port_forward:"
IsOwner(i) == owns[i]

\* what the try/except around wait(timeout=5) lets through to the caller:
\* subprocess.TimeoutExpired is caught
WaitExc(outcome) == "none"

\* a release() whose exception reaches the caller of teardown()
ReleaseExcPropagates(outcome) == IF outcome = "OSError" THEN "OSError" ELSE "none"

\* what contextlib.suppress(Exception) around release() lets through
ReleaseExc(outcome) == "none"

\* a _release_lock() that leaves the lock object as it is
ReleaseNothing(i) == fileLock

\* _release_lock(): self._file_lock is released, if there is one, and reset
ReleaseLock(i) ==
    IF fileLock[i] # "none" THEN [fileLock EXCEPT ![i] = "none"] ELSE fileLock

\* _release_lock() as seen from outside: release() on the lock object, if
\* there is one
ReleaseCalls(i, outcome) ==
    IF fileLock[i] # "none" THEN << Call("release", None, outcome) >> ELSE <<>>

\* how teardown() ends when exc ("none" or an exception) reaches its caller
TeardownEnds(i, exc) ==
    /\ ret' = IF exc = "none" THEN Returned(i, "teardown") ELSE Failed(i, "teardown")
    /\ raised' = IF exc = "none" THEN NoExc ELSE Escaped(i, exc)

\* teardown() up to the wait: the ownership test, terminate() on the handle;
\* an owner without a handle goes straight to _release_lock()
TeardownBegin(i) ==
    /\ pc[i] = "idle"
    /\ IF ~ IsOwner(i)
       THEN /\ TeardownEnds(i, "none")
            /\ calls' = <<>>
            /\ UNCHANGED <<pc, proc, procs, fileLock>>
       ELSE IF proc[i] # None
       THEN /\ calls' = << Call("terminate", proc[i], "sent") >>
            /\ pc' = [pc EXCEPT ![i] = "td_wait"]
            /\ ret' = InCall(i)
            /\ raised' = NoExc
            /\ UNCHANGED <<proc, procs, fileLock>>
       ELSE /\ \E outcome \in {"ok", "OSError"} :
                 /\ TeardownEnds(i, IF fileLock[i] # "none"
                                    THEN ReleaseExc(outcome) ELSE "none")
                 /\ calls' = ReleaseCalls(i, outcome)
            /\ fileLock' = ReleaseLock(i)
            /\ UNCHANGED <<pc, proc, procs>>
    /\ UNCHANGED <<envOf, owns, iter, ext>>
    /\ result' = NoResult /\ UNCHANGED life

\* a wait followed by kill() whether or not the wait timed out
KillRegardless(p, outcome) == << WaitCall(p, outcome), Call("kill", p, "sent") >>

\* wait(timeout=5) on process p and, only when the wait raised
\* TimeoutExpired, kill()
WaitCalls(p, outcome) ==
    IF outcome = "TimeoutExpired"
    THEN << WaitCall(p, outcome), Call("kill", p, "sent") >>
    ELSE << WaitCall(p, outcome) >>

\* wait(timeout=5) on the terminated process, kill() if the wait times
\* out, and the handle is dropped
TeardownWait(i) ==
    /\ pc[i] = "td_wait"
    /\ LET p == proc[i] IN
       \E outcome \in {"exited", "TimeoutExpired"} :
         /\ outcome = "TimeoutExpired" => Alive(p)
         /\ IF WaitExc(outcome) # "none"
            THEN /\ calls' = << WaitCall(p, outcome) >>
                 /\ TeardownEnds(i, WaitExc(outcome))
                 /\ pc' = [pc EXCEPT ![i] = "idle"]
                 /\ UNCHANGED <<proc, procs>>
            ELSE /\ calls' = WaitCalls(p, outcome)
                 /\ proc' = [proc EXCEPT ![i] = None]
                 /\ procs' = Dropped([procs EXCEPT ![p].st = "exited"], i)
                 /\ pc' = [pc EXCEPT ![i] = "td_release"]
                 /\ raised' = NoExc
                 /\ ret' = ret
    /\ UNCHANGED <<envOf, owns, fileLock, iter, ext>>
    /\ result' = NoResult /\ UNCHANGED life

\* the owner's _release_lock() and the return of teardown()
TeardownRelease(i) ==
    /\ pc[i] = "td_release"
    /\ \E outcome \in {"ok", "OSError"} :
         /\ TeardownEnds(i, IF fileLock[i] # "none" THEN ReleaseExc(outcome) ELSE "none")
         /\ calls' = ReleaseCalls(i, outcome)
    /\ fileLock' = ReleaseLock(i)
    /\ pc' = [pc EXCEPT ![i] = "idle"]
    /\ UNCHANGED <<envOf, owns, proc, iter, procs, ext>>
    /\ result' = NoResult /\ UNCHANGED life

\* ------------------------------------------------------ the environment
\* a running tunnel process binds the local port and accepts connections
TunnelListens(p) ==
    /\ procs[p].st = "silent"
    /\ ~ IsPortInUse(procs[p].env)
    /\ procs' = Canon([procs EXCEPT ![p].st = "listening"])
    /\ raised' = NoExc
    /\ calls' = <<>>
    /\ UNCHANGED <<envOf, pc, owns, proc, fileLock, iter, ret, ext>>
    /\ result' = NoResult /\ UNCHANGED life

\* a running tunnel process stops accepting connections without exiting
TunnelStalls(p) ==
    /\ procs[p].st = "listening"
    /\ procs' = Canon([procs EXCEPT ![p].st = "silent"])
    /\ raised' = NoExc
    /\ calls' = <<>>
    /\ UNCHANGED <<envOf, pc, owns, proc, fileLock, iter, ret, ext>>
    /\ result' = NoResult /\ UNCHANGED life

\* a running tunnel process exits on its own; an orphan leaves the table,
\* a process with a handle stays until the handle is dropped
TunnelExits(p) ==
    /\ Alive(p)
    /\ procs' = IF p \in OrphanPids
                THEN Canon([procs EXCEPT ![p] = FreeSlot])
                ELSE [procs EXCEPT ![p].st = "exited"]
    /\ raised' = NoExc
    /\ calls' = <<>>
    /\ UNCHANGED <<envOf, pc, owns, proc, fileLock, iter, ret, ext>>
    /\ result' = NoResult /\ UNCHANGED life

\* a listener that no instance spawned takes the free port of an
\* environment in use, or goes away
ForeignListener(e) ==
    /\ \E i \in Inst : envOf[i] = e
    /\ ext[e] \/ ~ IsPortInUse(e)
    /\ ext' = [ext EXCEPT ![e] = ~ @]
    /\ raised' = NoExc
    /\ calls' = <<>>
    /\ UNCHANGED <<envOf, pc, owns, proc, fileLock, iter, ret, procs>>
    /\ result' = NoResult /\ UNCHANGED life

Next ==
    \/ \E i \in Inst : SetupBegin(i)
    \/ \E i \in Inst : SetupAcquire(i)
    \/ \E i \in Inst : SetupStart(i)
    \/ \E i \in Inst : SetupPoll(i)
    \/ \E i \in Inst : TeardownBegin(i)
    \/ \E i \in Inst : TeardownWait(i)
    \/ \E i \in Inst : TeardownRelease(i)
    \/ \E p \in Pids : TunnelListens(p)
    \/ \E p \in Pids : TunnelStalls(p)
    \/ \E p \in Pids : TunnelExits(p)
    \/ \E e \in Envs : ForeignListener(e)

Spec == Init /\ [][Next]_vars

\* setup() runs on its caller's thread without waiting for anything but the
\* bounded calls it makes (acquire(timeout=0), run(timeout=5), sleep(0.5)),
\* so a setup() in progress keeps taking its steps; nothing is assumed of
\* the tunnel processes, of foreign listeners or of other calls
InSetup(i) == SetupAcquire(i) \/ SetupStart(i) \/ SetupPoll(i)

FairSpec == Spec /\ \A i \in Inst : WF_vars(pc[i] # "idle" /\ InSetup(i))

\* ------------------------------------------------- ensure_connection()
\* "callable any time after Ready": the instance's last call was a setup()
\* or an ensure_connection() that returned normally
Ready(i) == pc[i] = "idle" /\ ret[i].ok /\ ret[i].op \in {"setup", "ensure"}

\* ensure_connection() is running the start-and-poll sequence
Ensuring(i) == [ret EXCEPT ![i] = [op |-> "ensure", ok |-> TRUE]]

\* a port check that always reports the port unreachable
NeverReachable(i) == FALSE

\* "If the port is reachable, no-op"
Reachable(i) == IsPortInUse(envOf[i])

\* a restart that leaves a running process alone
RestartWithoutKill(p) == << Call("poll", p, Poll(p)) >>

\* what ensure_connection() does with the process of its handle before it
\* starts another: an exited one is only reported, one that is alive but
\* does not serve the port is killed and waited for
StopForRestart(p) ==
    IF Poll(p) = "running"
    THEN << Call("poll", p, "running"), Call("kill", p, "sent"), WaitCall(p, "exited") >>
    ELSE << Call("poll", p, "exited") >>

\* a restart after which the instance no longer counts as owner
OwnerLostByRestart(i) == [owns EXCEPT ![i] = FALSE]

\* the ownership flag when ensure_connection() restarts its own tunnel
OwnerAfterRestart(i) == owns

\* ensure_connection() up to the start-and-poll sequence it shares with
\* setup(): the port check, the handling of the process it has a handle on,
\* or the new attempt to get the lock when it has none
EnsureConnection(i) ==
    /\ Ready(i)
    /\ raised' = NoExc
    /\ IF Reachable(i)
       THEN /\ calls' = <<>>
            /\ ret' = Returned(i, "ensure")
            /\ UNCHANGED <<pc, owns, fileLock, procs>>
       ELSE IF proc[i] # None
       THEN /\ calls' = StopForRestart(proc[i])
            /\ procs' = IF \E k \in 1..Len(calls') : calls'[k].call = "kill"
                        THEN [procs EXCEPT ![proc[i]].st = "exited"] ELSE procs
            /\ owns' = OwnerAfterRestart(i)
            /\ pc' = [pc EXCEPT ![i] = "su_start"]
            /\ ret' = Ensuring(i)
            /\ UNCHANGED fileLock
       ELSE /\ calls' = <<>>
            /\ fileLock' = [fileLock EXCEPT ![i] = IF @ = "none" THEN "none" ELSE "unlocked"]
            /\ pc' = [pc EXCEPT ![i] = "su_acquire"]
            /\ ret' = Ensuring(i)
            /\ UNCHANGED <<owns, procs>>
    /\ UNCHANGED <<envOf, proc, iter, ext>>
    /\ result' = NoResult /\ UNCHANGED life

NextEnsure ==
    \/ Next
    \/ \E i \in Inst : EnsureConnection(i)

EnsureSpec == Init /\ [][NextEnsure]_vars

\* ------------------------------------------- get_config(), health_check()
\* str(n) for a port number
RECURSIVE Digits(_)
Digits(n) ==
    IF n < 10 THEN << n >> ELSE Digits(n \div 10) \o << n % 10 >>

\* the K8sEnvironmentConfig of the environment an instance was built for
Descriptor(e) == [name |-> e, local_port |-> 8083 + e, api_path |-> "/app/rest/v4"]

\* a base URL that names the loopback address instead of localhost
BaseUrlLoopback(d) ==
    << "http://", "127.0.0.1", ":" >> \o Digits(d.local_port) \o << d.api_path >>

\* f"http://localhost:{local_port}{api_path}"
BaseUrl(d) == << "http://", "localhost", ":" >> \o Digits(d.local_port) \o << d.api_path >>

\* the ConnectionConfig get_config() builds from the descriptor and the
\* trusted-header values given to the constructor (here its defaults)
ConnectionConfig(d) ==
    [base_url |-> BaseUrl(d),
     headers |-> [user_id |-> "superadmin", user_role |-> "SUPER_ADMIN"]]

\* a get_config() that checks the port before it answers
ConfigAfterPortCheck(i) ==
    << [call |-> "connect_ex", pid |-> None, timeout |-> None,
        res |-> IF IsPortInUse(envOf[i]) THEN "connected" ELSE "refused"] >>

\* the calls get_config() makes on the outside world: none
ConfigCalls(i) == <<>>

\* get_config(): a plain method, so it answers whatever else the instance
\* is in the middle of
GetConfig(i) ==
    /\ result' = [op |-> "get_config", by |-> i,
                  val |-> << ConnectionConfig(Descriptor(envOf[i])) >>]
    /\ calls' = ConfigCalls(i)
    /\ raised' = NoExc
    /\ UNCHANGED <<envOf, pc, owns, proc, fileLock, iter, ret, procs, ext, life>>

\* a health check that reports on the instance's own tunnel process
OwnTunnelAlive(i) == proc[i] # None /\ Alive(proc[i])

\* health_check(): "return self._is_port_in_use()"
HealthValue(i) == IsPortInUse(envOf[i])

\* health_check() and the connect_ex of _is_port_in_use
HealthCheck(i) ==
    /\ result' = [op |-> "health_check", by |-> i, val |-> << HealthValue(i) >>]
    /\ calls' = << [call |-> "connect_ex", pid |-> None, timeout |-> None,
                    res |-> IF IsPortInUse(envOf[i]) THEN "connected" ELSE "refused"] >>
    /\ raised' = NoExc
    /\ UNCHANGED <<envOf, pc, owns, proc, fileLock, iter, ret, procs, ext, life>>

NextQuery ==
    \/ Next
    \/ \E i \in Inst : GetConfig(i)
    \/ \E i \in Inst : HealthCheck(i)

QuerySpec == Init /\ [][NextQuery]_vars

\* ----------------------------------------- descriptors and the catalog
\* environment names, as strings of characters
Names == { <<"a">>, <<"b">>, <<"a", "b">> }

\* local ports a catalog source may give
Ports == {80, 8084, 8085, 65535}

\* api_path values a catalog source may give
Paths == {"/app/rest/v4", "/api/v1", ""}

\* every K8sEnvironmentConfig over these values
Descriptors == [name : Names, local_port : Ports, api_path : Paths]


\* one entry of a catalog source: local_port and api_path may be left out
SourceEntries ==
    [name : Names, local_port : Ports \cup {None}, api_path : Paths \cup {"absent"}]

\* the "environments" mapping of a YAML file: its entries in file order,
\* no name twice (a mapping)
Mappings ==
    { m \in UNION { [1..n -> SourceEntries] : n \in 0..MaxEnvironments } :
        \A j, k \in 1..Len(m) : j # k => m[j].name # m[k].name }

\* a catalog source: a path that does not exist, or a file with a mapping
Sources ==
    { [exists |-> FALSE, data |-> <<>>] } \cup { [exists |-> TRUE, data |-> m] : m \in Mappings }

\* K8sEnvironmentConfig(name=name, local_port=config["local_port"], ...,
\* api_path=config.get("api_path", "/app/rest/v4"))
LoadEntry(c) ==
    [name |-> c.name, local_port |-> c.local_port,
     api_path |-> IF c.api_path = "absent" THEN "/app/rest/v4" ELSE c.api_path]

\* _load_environments_from_yaml: {} for a missing file, KeyError for an
\* entry without local_port, else one descriptor per entry, in file order
LoadEnvironmentsFromYaml(src) ==
    IF ~ src.exists THEN [error |-> "none", environments |-> <<>>]
    ELSE IF \E k \in 1..Len(src.data) : src.data[k].local_port = None
    THEN [error |-> "KeyError", environments |-> <<>>]
    ELSE [error |-> "none",
          environments |-> [k \in 1..Len(src.data) |-> LoadEntry(src.data[k])]]

\* the loader applied to a source
LoadCatalog(src) ==
    /\ result.op = "none"
    /\ result' = [op |-> "load", by |-> None,
                  val |-> << src, LoadEnvironmentsFromYaml(src) >>]
    /\ calls' = <<>>
    /\ raised' = NoExc
    /\ UNCHANGED <<envOf, pc, owns, proc, fileLock, iter, ret, procs, ext, life>>

\* what the default files (user config, else the example config) may hold:
\* nothing, one environment, two environments, an entry without local_port
DefaultSources ==
    { [exists |-> FALSE, data |-> <<>>],
      [exists |-> TRUE,
       data |-> << [name |-> <<"a">>, local_port |-> 8084, api_path |-> "absent"] >>],
      [exists |-> TRUE,
       data |-> << [name |-> <<"a", "b">>, local_port |-> 8085, api_path |-> "absent"],
                   [name |-> <<"b">>, local_port |-> 8084, api_path |-> "/api/v1"] >>],
      [exists |-> TRUE,
       data |-> << [name |-> <<"a">>, local_port |-> None, api_path |-> "absent"] >>] }

\* every catalog the loader can return
Catalogs ==
    { LoadEnvironmentsFromYaml(src).environments :
        src \in { s \in Sources : LoadEnvironmentsFromYaml(s).error = "none" } }

\* _get_default_environments: the loader applied to the default file
GetDefaultEnvironments(dsrc) == LoadEnvironmentsFromYaml(dsrc)

\* the keys of a catalog
Keys(cat) == { cat[k].name : k \in 1..Len(cat) }

\* self._environments[environment]
Lookup(cat, environment) == cat[CHOOSE k \in 1..Len(cat) : cat[k].name = environment]

ResolveUnknownAsFirst(environment, cat) ==
    IF environment \in Keys(cat)
    THEN [error |-> "none", instance |-> << Lookup(cat, environment) >>]
    ELSE IF Len(cat) > 0
    THEN [error |-> "none", instance |-> << cat[1] >>]
    ELSE [error |-> "ValueError", instance |-> <<>>]

\* __init__ with a name: ValueError before any field of the instance is
\* set when the name is no key, else the instance holds that descriptor
Resolve(environment, cat) ==
    IF environment \notin Keys(cat)
    THEN [error |-> "ValueError", instance |-> <<>>]
    ELSE [error |-> "none", instance |-> << Lookup(cat, environment) >>]

\* K8sConnectionProvider(environment=name, environments=...): an empty (or
\* absent) environments argument is falsy and the default catalog is loaded
K8sConnectionProvider(environment, environments, dsrc) ==
    IF Len(environments) > 0
    THEN Resolve(environment, environments)
    ELSE LET d == GetDefaultEnvironments(dsrc)
         IN  IF d.error # "none"
             THEN [error |-> d.error, instance |-> <<>>]
             ELSE Resolve(environment, d.environments)

\* the constructor called with a name and a catalog; the default file is
\* read only when the catalog is empty
Construct(environment, environments, dsrc) ==
    /\ result.op = "none"
    /\ Len(environments) > 0 => ~ dsrc.exists
    /\ result' = [op |-> "construct", by |-> None,
                  val |-> << environment, environments, dsrc,
                             K8sConnectionProvider(environment, environments, dsrc) >>]
    /\ calls' = <<>>
    /\ raised' = NoExc
    /\ UNCHANGED <<envOf, pc, owns, proc, fileLock, iter, ret, procs, ext, life>>

\* the --k8s-config option: not given, or the path of a source
K8sConfigs ==
    { [given |-> FALSE, src |-> [exists |-> FALSE, data |-> <<>>]] }
        \cup { [given |-> TRUE, src |-> s] : s \in Sources }

\* _get_provider("k8s", environment, k8s_config): a given source is loaded
\* and rejected when it has no environments; "constructed" tells whether
\* the constructor was called
GetProviderOutcome(environment, k8s_config, dsrc) ==
    IF ~ k8s_config.given
    THEN [constructed |-> TRUE,
          out |-> K8sConnectionProvider(environment, <<>>, dsrc)]
    ELSE LET l == LoadEnvironmentsFromYaml(k8s_config.src)
         IN  IF l.error # "none"
             THEN [constructed |-> FALSE, out |-> [error |-> l.error, instance |-> <<>>]]
             ELSE IF Len(l.environments) = 0
             THEN [constructed |-> FALSE,
                   out |-> [error |-> "ValueError", instance |-> <<>>]]
             ELSE [constructed |-> TRUE,
                   out |-> K8sConnectionProvider(environment, l.environments, dsrc)]

GetProvider(environment, k8s_config, dsrc) ==
    /\ result.op = "none"
    /\ k8s_config.given => ~ dsrc.exists
    /\ result' = [op |-> "get_provider", by |-> None,
                  val |-> << environment, k8s_config, dsrc,
                             GetProviderOutcome(environment, k8s_config, dsrc) >>]
    /\ calls' = <<>>
    /\ raised' = NoExc
    /\ UNCHANGED <<envOf, pc, owns, proc, fileLock, iter, ret, procs, ext, life>>

\* characters of a context name; " " stands for any white space, the
\* newline that ends the output included
Chars == {"-", "a", "b", " "}

Whitespace == {" "}

\* what "kubectl config current-context" may print
Stdouts == UNION { [1..n -> Chars] : n \in 0..MaxContext }

\* how subprocess.run(..., check=True, timeout=5) may end
CommandOutcomes == {"ok", "CalledProcessError", "FileNotFoundError", "TimeoutExpired"}

\* pat in s, scanning s from position k
RECURSIVE FindFrom(_, _, _)
FindFrom(s, pat, k) ==
    IF k + Len(pat) - 1 > Len(s) THEN FALSE
    ELSE IF SubSeq(s, k, k + Len(pat) - 1) = pat THEN TRUE
    ELSE FindFrom(s, pat, k + 1)

\* s.endswith(pat)
EndsWith(s, pat) ==
    Len(pat) <= Len(s) /\ SubSeq(s, Len(s) - Len(pat) + 1, Len(s)) = pat

ContextMatchesBareName(env, context) == FindFrom(context, env, 1)

\* f"-{env}-" in context or context.endswith(f"-{env}")
ContextMatches(env, context) ==
    \/ FindFrom(context, << "-" >> \o env \o << "-" >>, 1)
    \/ EndsWith(context, << "-" >> \o env)

\* for env in environments: ... return env; return None
RECURSIVE FirstMatch(_, _, _)
FirstMatch(cat, context, k) ==
    IF k > Len(cat) THEN <<>>
    ELSE IF ContextMatches(cat[k].name, context) THEN << cat[k].name >>
    ELSE FirstMatch(cat, context, k + 1)

\* detect_environment_from_context: the three exceptions of the command
\* give None; else the stripped output is matched against the keys of the
\* default catalog; an exception of the loader is not caught
DetectEnvironmentFromContext(cmd, stdout, dsrc) ==
    IF cmd # "ok" THEN [error |-> "none", value |-> <<>>]
    ELSE LET context == Strip(stdout)
             d == GetDefaultEnvironments(dsrc)
         IN  IF d.error # "none" THEN [error |-> d.error, value |-> <<>>]
             ELSE [error |-> "none", value |-> FirstMatch(d.environments, context, 1)]

Detect(cmd, stdout, dsrc) ==
    /\ result.op = "none"
    /\ cmd # "ok" => stdout = <<>>
    /\ result' = [op |-> "detect", by |-> None,
                  val |-> << cmd, stdout, dsrc,
                             DetectEnvironmentFromContext(cmd, stdout, dsrc) >>]
    /\ calls' = << [call |-> "run", cmd |-> "kubectl config current-context"] >>
    /\ raised' = NoExc
    /\ UNCHANGED <<envOf, pc, owns, proc, fileLock, iter, ret, procs, ext, life>>

\* ------------------------------------------ DefaultConnectionProvider
\* a constructor argument left at None, an environment variable not set
Unset == "<unset>"

\* Python truthiness of an optional text
Truthy(x) == x \notin {Unset, ""}

\* "a or b"
OrElse(a, b) == IF Truthy(a) THEN a ELSE b

\* characters of a trusted-headers text: two letters, the two separators
\* and white space
HeaderChars == {"k", "v", ":", ",", " "}

HeaderTexts == UNION { [1..n -> HeaderChars] : n \in 0..MaxHeaderText }

\* s.split(sep): the parts of s between the separators, empty parts kept
RECURSIVE SplitFrom(_, _, _, _)
SplitFrom(s, sep, k, part) ==
    IF k > Len(s) THEN << part >>
    ELSE IF s[k] = sep THEN << part >> \o SplitFrom(s, sep, k + 1, <<>>)
    ELSE SplitFrom(s, sep, k + 1, Append(part, s[k]))

Split(s, sep) == SplitFrom(s, sep, 1, <<>>)

\* the position of the first sep in s, 0 if there is none
RECURSIVE IndexFrom(_, _, _)
IndexFrom(s, sep, k) ==
    IF k > Len(s) THEN 0
    ELSE IF s[k] = sep THEN k
    ELSE IndexFrom(s, sep, k + 1)

\* headers[key] = value on a dict kept as its items in insertion order
DictSet(d, key, value) ==
    IF \E n \in 1..Len(d) : d[n][1] = key
    THEN [n \in 1..Len(d) |-> IF d[n][1] = key THEN << key, value >> ELSE d[n]]
    ELSE Append(d, << key, value >>)

\* the loop of _parse_trusted_headers over the pairs from the k-th on
RECURSIVE ParsePairs(_, _, _)
ParsePairs(pairs, k, d) ==
    IF k > Len(pairs) THEN d
    ELSE LET pair == pairs[k]
             c == IndexFrom(pair, ":", 1)
         IN  IF c = 0 THEN ParsePairs(pairs, k + 1, d)
             ELSE ParsePairs(pairs, k + 1,
                             DictSet(d, Strip(SubSeq(pair, 1, c - 1)),
                                        Strip(SubSeq(pair, c + 1, Len(pair)))))

\* _parse_trusted_headers(headers_str); env is [set, text]
ParseTrustedHeaders(env) ==
    IF ~ env.set \/ env.text = <<>> THEN <<>>
    ELSE ParsePairs(Split(env.text, ","), 1, <<>>)

\* _parse_trusted_headers applied to a text
ParseHeaders(env) ==
    /\ result' = [op |-> "parse_headers", by |-> None,
                  val |-> << env, ParseTrustedHeaders(env) >>]
    /\ calls' = <<>>
    /\ raised' = NoExc
    /\ UNCHANGED <<envOf, pc, owns, proc, fileLock, iter, ret, procs, ext, life>>

\* the values of an optional text argument and of its environment variable
OptionalTexts(value) == {Unset, "", value}

\* the trusted_headers constructor argument: None, {} or one header
TrustedArgs ==
    { [given |-> FALSE, dict |-> <<>>],
      [given |-> TRUE, dict |-> <<>>],
      [given |-> TRUE, dict |-> << << <<"x">>, <<"a">> >> >>] }

\* UNBLU_TRUSTED_HEADERS: not set, empty, one header, a text without colon
TrustedEnvs ==
    { [set |-> FALSE, text |-> <<>>],
      [set |-> TRUE, text |-> <<>>],
      [set |-> TRUE, text |-> << "k", ":", "v" >>],
      [set |-> TRUE, text |-> << "k", ",", "v" >>] }

\* what the constructor got and what the process environment holds
ProviderInputs ==
    [base_url : {Unset, "https://arg"}, env_base_url : {Unset, "https://env"},
     api_key : OptionalTexts("ka"), env_api_key : OptionalTexts("ke"),
     username : OptionalTexts("ua"), env_username : OptionalTexts("ue"),
     password : OptionalTexts("pa"), env_password : OptionalTexts("pe"),
     trusted_headers : TrustedArgs, env_trusted_headers : TrustedEnvs]

\* a choice of credentials that tries the API key before the trusted headers
CredentialsKeyFirst(trusted, api_key, username, password) ==
    IF Truthy(api_key)
    THEN [headers |-> << << <<"Authorization">>, << "Bearer ", api_key >> >> >>,
          auth |-> <<>>]
    ELSE IF trusted # <<>>
    THEN [headers |-> trusted, auth |-> <<>>]
    ELSE IF Truthy(username) /\ Truthy(password)
    THEN [headers |-> <<>>, auth |-> << "basic", username, password >>]
    ELSE [headers |-> <<>>, auth |-> <<>>]

\* "if trusted_headers: ... elif api_key: ... elif username and password:"
Credentials(trusted, api_key, username, password) ==
    IF trusted # <<>>
    THEN [headers |-> trusted, auth |-> <<>>]
    ELSE IF Truthy(api_key)
    THEN [headers |-> << << <<"Authorization">>, << "Bearer ", api_key >> >> >>,
          auth |-> <<>>]
    ELSE IF Truthy(username) /\ Truthy(password)
    THEN [headers |-> <<>>, auth |-> << "basic", username, password >>]
    ELSE [headers |-> <<>>, auth |-> <<>>]

\* DefaultConnectionProvider(...).get_config()
DefaultConnectionConfig(in) ==
    LET base_url == OrElse(in.base_url,
                           IF in.env_base_url = Unset
                           THEN "https://unblu.cloud/app/rest/v4" ELSE in.env_base_url)
        api_key == OrElse(in.api_key, in.env_api_key)
        username == OrElse(in.username, in.env_username)
        password == OrElse(in.password, in.env_password)
        trusted == IF in.trusted_headers.given THEN in.trusted_headers.dict
                   ELSE ParseTrustedHeaders(in.env_trusted_headers)
        c == Credentials(trusted, api_key, username, password)
    IN  [base_url |-> base_url, headers |-> c.headers, auth |-> c.auth]

DefaultGetConfig(in) ==
    /\ result' = [op |-> "default_config", by |-> None,
                  val |-> << in, DefaultConnectionConfig(in) >>]
    /\ calls' = <<>>
    /\ raised' = NoExc
    /\ UNCHANGED <<envOf, pc, owns, proc, fileLock, iter, ret, procs, ext, life>>

\* get_config() of an instance built for descriptor d (the constructor takes
\* a K8sEnvironmentConfig as it is)
ConfigOfDescriptor(d) ==
    /\ result.op = "none"
    /\ result' = [op |-> "config_of", by |-> None,
                  val |-> << d, ConnectionConfig(d) >>]
    /\ calls' = <<>>
    /\ raised' = NoExc
    /\ UNCHANGED <<envOf, pc, owns, proc, fileLock, iter, ret, procs, ext, life>>

\* each pure function is applied once, to an input drawn from its domain
NextPure ==
    /\ result.op = "none"
    /\ \/ \E d \in Descriptors : ConfigOfDescriptor(d)
       \/ \E src \in Sources : LoadCatalog(src)
       \/ \E environment \in Names, environments \in Catalogs, dsrc \in DefaultSources :
               Construct(environment, environments, dsrc)
       \/ \E environment \in Names, k8s_config \in K8sConfigs, dsrc \in DefaultSources :
               GetProvider(environment, k8s_config, dsrc)
       \/ \E cmd \in CommandOutcomes, stdout \in Stdouts, dsrc \in DefaultSources :
               Detect(cmd, stdout, dsrc)
       \/ \E text \in HeaderTexts, set \in BOOLEAN :
               (set \/ text = <<>>) /\ ParseHeaders([set |-> set, text |-> text])
       \/ \E in \in ProviderInputs : DefaultGetConfig(in)

PureSpec == Init /\ [][NextPure]_vars

\* ------------------------------------------------- the server's lifespan
\* life[i] is where the server built around provider i is: "none" before
\* create_server, "created" after it, "starting" once the lifespan is
\* entered and up to the return of setup(), "serving" at the yield,
\* "stopping" in the finally block, "stopped" after it, and "failed" when
\* the lifespan ended with the exception of setup().

\* create_server(provider=...): defines the lifespan and calls only
\* provider.get_config()
CreateServer(i) ==
    /\ life[i] = "none"
    /\ life' = [life EXCEPT ![i] = "created"]
    /\ result' = [op |-> "get_config", by |-> i,
                  val |-> << ConnectionConfig(Descriptor(envOf[i])) >>]
    /\ calls' = ConfigCalls(i)
    /\ raised' = NoExc
    /\ UNCHANGED <<envOf, pc, owns, proc, fileLock, iter, ret, procs, ext>>

\* the server is started and enters lifespan(): "await provider.setup()" is
\* what it does next
LifespanEnter(i) ==
    /\ life[i] = "created"
    /\ life' = [life EXCEPT ![i] = "starting"]
    /\ result' = NoResult
    /\ calls' = <<>>
    /\ raised' = NoExc
    /\ UNCHANGED <<envOf, pc, owns, proc, fileLock, iter, ret, procs, ext>>

\* the steps of the setup() call the lifespan awaits
LifespanSetup(i) ==
    /\ life[i] = "starting"
    /\ pc[i] # "idle" \/ ret[i].op = "none"
    /\ SetupBegin(i) \/ SetupAcquire(i) \/ SetupStart(i) \/ SetupPoll(i)

\* setup() returned: the lifespan reaches its yield and the server serves
LifespanYield(i) ==
    /\ life[i] = "starting"
    /\ pc[i] = "idle" /\ ret[i] = [op |-> "setup", ok |-> TRUE]
    /\ life' = [life EXCEPT ![i] = "serving"]
    /\ result' = NoResult
    /\ calls' = <<>>
    /\ raised' = NoExc
    /\ UNCHANGED <<envOf, pc, owns, proc, fileLock, iter, ret, procs, ext>>

\* a lifespan that has setup() inside its try block
SetupInsideTry == "stopping"

\* setup() is awaited before the try block is entered, so its exception
\* leaves the lifespan past the finally clause
AfterSetupRaises == "failed"

\* setup() raised: the exception leaves lifespan() and reaches whoever
\* started the server
LifespanSetupRaises(i) ==
    /\ life[i] = "starting"
    /\ pc[i] = "idle" /\ ret[i] = [op |-> "setup", ok |-> FALSE]
    /\ life' = [life EXCEPT ![i] = AfterSetupRaises]
    /\ result' = [op |-> "startup_failed", by |-> i, val |-> <<>>]
    /\ calls' = <<>>
    /\ raised' = Escaped(i, "RuntimeError")
    /\ UNCHANGED <<envOf, pc, owns, proc, fileLock, iter, ret, procs, ext>>

\* the server handles a request while the lifespan is suspended at its yield
ServeRequest(i) ==
    /\ life[i] = "serving"
    /\ result' = [op |-> "request", by |-> i, val |-> <<>>]
    /\ calls' = <<>>
    /\ raised' = NoExc
    /\ UNCHANGED <<envOf, pc, owns, proc, fileLock, iter, ret, procs, ext, life>>

\* a lifespan without the try/finally around its yield
AfterBodyNoFinally(how) == IF how = "exception" THEN "stopped" ELSE "stopping"

\* "try: yield / finally: await provider.teardown()": however the body
\* ends, the finally block runs
AfterBody(how) == "stopping"

\* the server leaves its lifespan: it shut down, or an exception was thrown
\* into the lifespan at its yield
LifespanExit(i, how) ==
    /\ life[i] = "serving"
    /\ life' = [life EXCEPT ![i] = AfterBody(how)]
    /\ result' = [op |-> "lifespan_exit", by |-> i, val |-> << how >>]
    /\ calls' = <<>>
    /\ raised' = NoExc
    /\ UNCHANGED <<envOf, pc, owns, proc, fileLock, iter, ret, procs, ext>>

\* the steps of the teardown() call in the finally block
LifespanTeardown(i) ==
    /\ life[i] = "stopping"
    /\ pc[i] # "idle" \/ ret[i].op = "setup"
    /\ TeardownBegin(i) \/ TeardownWait(i) \/ TeardownRelease(i)

\* teardown() is over and the lifespan with it
LifespanDone(i) ==
    /\ life[i] = "stopping"
    /\ pc[i] = "idle" /\ ret[i].op = "teardown"
    /\ life' = [life EXCEPT ![i] = "stopped"]
    /\ result' = NoResult
    /\ calls' = <<>>
    /\ raised' = NoExc
    /\ UNCHANGED <<envOf, pc, owns, proc, fileLock, iter, ret, procs, ext>>

NextLifespan ==
    \/ \E i \in Inst : CreateServer(i)
    \/ \E i \in Inst : LifespanEnter(i)
    \/ \E i \in Inst : LifespanSetup(i)
    \/ \E i \in Inst : LifespanYield(i)
    \/ \E i \in Inst : LifespanSetupRaises(i)
    \/ \E i \in Inst : ServeRequest(i)
    \/ \E i \in Inst, how \in {"return", "exception"} : LifespanExit(i, how)
    \/ \E i \in Inst : LifespanTeardown(i)
    \/ \E i \in Inst : LifespanDone(i)
    \/ \E p \in Pids : TunnelListens(p)
    \/ \E p \in Pids : TunnelStalls(p)
    \/ \E p \in Pids : TunnelExits(p)
    \/ \E e \in Envs : ForeignListener(e)

LifespanSpec == Init /\ [][NextLifespan]_vars

\* ------------------------------------------- several environments at once
\* Freshly constructed instances, each built for any environment of the
\* catalog (K8sConnectionProvider(environment=name)).
InitEnvs ==
    /\ envOf \in [Inst -> Envs]
    /\ pc = [i \in Inst |-> "idle"]
    /\ owns = [i \in Inst |-> FALSE]
    /\ proc = [i \in Inst |-> None]
    /\ fileLock = [i \in Inst |-> "none"]
    /\ iter = [i \in Inst |-> 0]
    /\ ret = [i \in Inst |-> NoRet]
    /\ raised = NoExc
    /\ calls = <<>>
    /\ procs = [p \in Pids |-> FreeSlot]
    /\ ext \in [Envs -> BOOLEAN]
    /\ \A e \in Envs : ext[e] => \E i \in Inst : envOf[i] = e
    /\ result = NoResult
    /\ life = [i \in Inst |-> "none"]

EnvsSpec == InitEnvs /\ [][Next]_vars

\* ---------------------------------------------------------------- claims
\* the instances whose lock object holds the lock file of environment e
LockHolders(e) == {i \in Inst : envOf[i] = e /\ fileLock[i] = "locked"}

\* the step of instance i in which _try_acquire_lock returns
TryAcquireReturns(i) ==
    /\ pc[i] \in {"idle", "su_acquire"}
    /\ pc'[i] # pc[i] \/ fileLock'[i] # fileLock[i]
    /\ SetupAcquire(i)

\* C1: among instances racing on one environment name, at most one holds
\* the lock in every reachable state, and _try_acquire_lock returns true
\* (the caller becomes owner, holding the lock) exactly when no other
\* instance holds that environment's lock at that moment, false otherwise.
C1_TryAcquireExclusive ==
    /\ [](\A e \in Envs : Cardinality(LockHolders(e)) <= 1)
    /\ [][\A i \in Inst : TryAcquireReturns(i) =>
            /\ owns'[i] <=> (LockHolders(envOf[i]) \ {i} = {})
            /\ owns'[i] <=> fileLock'[i] = "locked"
            /\ ~ owns'[i] => fileLock'[i] = "none"]_vars

\* one instance holds the lock and a racing one has been refused
C1_Witness ==
    \E i \in Inst : \E j \in Inst :
        /\ i # j /\ envOf[i] = envOf[j]
        /\ fileLock[i] = "locked" /\ owns[i]
        /\ pc[j] = "su_wait" /\ ~ owns[j] /\ fileLock[j] = "none"

\* the running tunnel processes that instances spawned for environment e
LiveTunnels(e) == {p \in Pids : Alive(p) /\ procs[p].env = e}

\* C2: in every reachable state at most one live spawned tunnel process
\* exists per environment, whatever the interleaving of setup() and
\* teardown() calls of the instances targeting it.
C2_AtMostOneLiveTunnel == \A e \in Envs : Cardinality(LiveTunnels(e)) <= 1

\* the terminate and kill signals among the calls cs
Signals(cs) == SelectSeq(cs, LAMBDA c : c.call \in {"terminate", "kill"})

\* the processes started among the calls cs
Spawns(cs) == SelectSeq(cs, LAMBDA c : c.call = "Popen")

\* setup() of instance i returned normally and the instance has no handle
ReadyWithoutHandle(i) ==
    /\ pc[i] = "idle" /\ ret[i].op = "setup" /\ ret[i].ok
    /\ proc[i] = None

\* C3: when setup() of an instance without a handle finds the port already
\* reachable, it spawns no process, and when it returns at once it has
\* succeeded with the handle empty and the ownership flag false.
C3_ReachablePortMeansNonOwner ==
    [][\A i \in Inst :
        (TryAcquireReturns(i) /\ proc[i] = None /\ IsPortInUse(envOf[i])) =>
            /\ pc'[i] # "su_start"
            /\ Spawns(calls') = <<>> /\ procs' = procs
            /\ pc'[i] = "idle" =>
                 /\ ret'[i].op = "setup" /\ ret'[i].ok
                 /\ proc'[i] = None
                 /\ ~ owns'[i]]_vars

\* C4: setup() that wins the lock with the port unreachable spawns the
\* tunnel process and keeps polling while the port is unreachable; when it
\* returns normally the port is reachable, the spawned process is its
\* handle and the ownership flag is true; teardown() of an owner with a
\* handle cannot return before it has stopped that process, and it ends
\* with the process not running, the handle empty and the lock released.
C4_OwnerSpawnsAndStops ==
    [][\A i \in Inst :
        /\ (TryAcquireReturns(i) /\ owns'[i] /\ ~ IsPortInUse(envOf[i])) =>
              pc'[i] = "su_start"
        /\ (pc[i] = "su_start" /\ pc'[i] = "su_wait") =>
              /\ owns[i] /\ fileLock[i] = "locked"
              /\ Spawns(calls') # <<>>
              /\ proc'[i] # None /\ procs'[proc'[i]] = [st |-> "silent", env |-> envOf[i]]
        /\ (pc[i] = "su_wait" /\ pc'[i] = "su_wait" /\ iter'[i] # iter[i]) =>
              /\ ~ IsPortInUse(envOf[i])
              /\ iter'[i] = iter[i] + 1
        /\ (pc[i] = "su_wait" /\ owns[i] /\ pc'[i] = "idle" /\ ret'[i].ok) =>
              /\ IsPortInUse(envOf[i])
              /\ proc[i] # None /\ proc'[i] = proc[i]
              /\ owns'[i] /\ fileLock'[i] = "locked"
              /\ ret'[i].op = "setup"
        /\ (pc[i] = "idle" /\ owns[i] /\ proc[i] # None) =>
              /\ pc'[i] = "idle" => ret'[i] = ret[i] /\ proc'[i] = proc[i]
              /\ pc'[i] = "td_wait" => proc'[i] = proc[i]
              /\ pc'[i] \in {"idle", "td_wait", "su_acquire"}
        /\ (pc[i] = "td_wait" /\ pc'[i] # "td_wait") =>
              /\ pc'[i] = "td_release"
              /\ procs'[proc[i]].st \notin {"silent", "listening"}
              /\ proc'[i] = None
        /\ (pc[i] = "td_release" /\ pc'[i] # "td_release") =>
              /\ pc'[i] = "idle" /\ ret'[i].op = "teardown" /\ ret'[i].ok
              /\ proc'[i] = None /\ fileLock'[i] = "none"]_vars

\* teardown() of an owner has stopped the process it spawned
C4_Witness ==
    \E i \in Inst :
        /\ pc[i] = "td_release" /\ owns[i] /\ proc[i] = None
        /\ fileLock[i] = "locked"
        /\ \E k \in 1..Len(calls) : calls[k].call = "wait" /\ calls[k].pid = i
        /\ ~ Alive(i)

\* C5: teardown() of an instance whose ownership flag is false sends no
\* terminate or kill to any process, makes no call on the lock, and leaves
\* the instance's handle, lock object and flag, and every process and
\* every other instance, as they were.
C5_NonOwnerTeardownNoOp ==
    [][\A i \in Inst : (pc[i] = "idle" /\ ~ owns[i] /\ TeardownBegin(i)) =>
            /\ calls' = <<>>
            /\ raised' = NoExc
            /\ pc'[i] = "idle" /\ ret'[i].op = "teardown" /\ ret'[i].ok
            /\ UNCHANGED <<envOf, pc, owns, proc, fileLock, iter, procs, ext>>]_vars

\* a non-owner holding a process reference has torn down while another
\* instance's tunnel is running
C5_Witness ==
    \E i \in Inst : \E j \in Inst :
        /\ pc[i] = "idle" /\ ret[i].op = "teardown" /\ ~ owns[i] /\ proc[i] # None
        /\ j # i /\ owns[j] /\ fileLock[j] = "locked"

\* C6: teardown() after a setup() that found the port reachable and
\* spawned nothing runs as non-owner and is a no-op: no process is
\* signalled, no lock is released, and the listener on the port is still
\* reachable afterwards.
C6_TeardownAfterReuseIsNonOwnerNoOp ==
    [][\A i \in Inst : (ReadyWithoutHandle(i) /\ TeardownBegin(i)) =>
            /\ ~ owns[i]
            /\ Signals(calls') = <<>>
            /\ calls' = <<>>
            /\ UNCHANGED <<owns, proc, fileLock, procs, ext>>
            /\ IsPortInUse(envOf[i]) => IsPortInUse(envOf[i])']_vars

\* instance i has not completed any call yet
Fresh(i) == pc[i] = "idle" /\ ret[i].op = "none"

\* the last call instance i completed was a setup() that raised
AfterFailedSetup(i) == pc[i] = "idle" /\ ret[i].op = "setup" /\ ~ ret[i].ok

\* the last call instance i completed was a teardown()
AfterTeardown(i) == pc[i] = "idle" /\ ret[i].op = "teardown"

\* C7: teardown() called on a fresh instance, after a failed setup() or
\* after a completed teardown() returns at once without raising and
\* without signalling any process, and after a completed teardown() it
\* changes nothing.
C7_TeardownAlwaysSafe ==
    [][\A i \in Inst :
        ((Fresh(i) \/ AfterFailedSetup(i) \/ AfterTeardown(i)) /\ TeardownBegin(i)) =>
            /\ raised' = NoExc
            /\ Signals(calls') = <<>>
            /\ pc'[i] = "idle" /\ ret'[i].op = "teardown" /\ ret'[i].ok
            /\ AfterTeardown(i) =>
                 UNCHANGED <<envOf, pc, owns, proc, fileLock, iter, procs, ext>>]_vars

\* C8: teardown() of an owner with a handle first sends terminate to the
\* process, then waits on it with the 5 s grace period and sends kill
\* exactly when that wait timed out; either way the handle is empty
\* afterwards and the lock is still held, and the lock is released only in
\* a later step, when the instance has no handle left.
C8_TerminateWaitKillThenRelease ==
    [][\A i \in Inst :
        /\ (pc[i] = "idle" /\ owns[i] /\ proc[i] # None /\ TeardownBegin(i)) =>
              /\ calls' = << Call("terminate", proc[i], "sent") >>
              /\ pc'[i] = "td_wait"
              /\ proc'[i] = proc[i] /\ fileLock'[i] = fileLock[i]
        /\ (pc[i] = "td_wait" /\ TeardownWait(i)) =>
              /\ Len(calls') >= 1
              /\ calls'[1].call = "wait" /\ calls'[1].pid = proc[i]
              /\ calls'[1].timeout = 5
              /\ calls'[1].res = "TimeoutExpired" =>
                    calls' = << calls'[1], Call("kill", proc[i], "sent") >>
              /\ calls'[1].res # "TimeoutExpired" => calls' = << calls'[1] >>
              /\ proc'[i] = None
              /\ fileLock'[i] = fileLock[i]
              /\ pc'[i] = "td_release"
        /\ (fileLock'[i] # fileLock[i]
               /\ (TeardownBegin(i) \/ TeardownWait(i) \/ TeardownRelease(i))) =>
              /\ proc[i] = None
              /\ pc[i] \in {"td_release", "idle"}
              /\ fileLock[i] = "locked" /\ fileLock'[i] = "none"]_vars

\* the wait of an owner's teardown() timed out and the process was killed,
\* with the lock still held
C8_Witness ==
    \E i \in Inst :
        /\ pc[i] = "td_release" /\ proc[i] = None /\ fileLock[i] = "locked"
        /\ Len(calls) = 2
        /\ calls[1].call = "wait" /\ calls[1].res = "TimeoutExpired"
        /\ calls[2] = Call("kill", i, "sent")

\* C9: no step of teardown() raises to the caller and every teardown()
\* that ends returns normally: a wait that times out is followed by kill
\* and the process is not running afterwards, and a release() that fails
\* still leaves the instance without the lock.
C9_TeardownNeverRaises ==
    [][\A i \in Inst :
        (pc[i] \in {"idle", "td_wait", "td_release"}
           /\ (TeardownBegin(i) \/ TeardownWait(i) \/ TeardownRelease(i))) =>
            /\ raised' = NoExc
            /\ pc'[i] = "idle" => ret'[i].op = "teardown" /\ ret'[i].ok
            /\ \A k \in 1..Len(calls') :
                 /\ (calls'[k].call = "wait" /\ calls'[k].res = "TimeoutExpired") =>
                       /\ k < Len(calls') /\ calls'[k + 1].call = "kill"
                       /\ procs'[calls'[k].pid].st \notin {"silent", "listening"}
                       /\ pc'[i] = "td_release"
                 /\ (calls'[k].call = "release" /\ calls'[k].res = "OSError") =>
                       /\ pc'[i] = "idle"
                       /\ fileLock'[i] = "none"]_vars

\* a teardown() whose release() failed has returned normally
C9_Witness ==
    \E i \in Inst :
        /\ pc[i] = "idle" /\ ret[i].op = "teardown" /\ ret[i].ok
        /\ raised = NoExc
        /\ calls = << Call("release", None, "OSError") >>

\* C10: when the authorization probe of setup() exits nonzero, setup()
\* raises the authentication failure with the probe's stripped stderr (or
\* "unknown") as its detail, it spawns nothing, and no tunnel process
\* started by this instance (the process of its handle) is running once
\* setup() has returned.
C10_AuthFailureLeavesNoTunnel ==
    [][\A i \in Inst :
        (pc[i] = "su_start" /\ SetupStart(i)
           /\ Call("auth", None, "nonzero") \in {calls'[k] : k \in 1..Len(calls')}) =>
            /\ raised'.by = i /\ raised'.cause = "AuthenticationFailure"
            /\ raised'.msg = OrDefault(Strip(raised'.stderr), "unknown")
            /\ pc'[i] = "idle" /\ ret'[i].op = "setup" /\ ~ ret'[i].ok
            /\ Spawns(calls') = <<>> /\ procs' = procs
            /\ procs'[i].st \notin {"silent", "listening"}]_vars

\* the calls of the last step, as a set
CallSet == {calls[k] : k \in 1..Len(calls)}

\* the instance whose setup() has just failed, and how
SetupFailedWith(cause) ==
    /\ raised.type # "none" /\ raised.cause = cause
    /\ pc[raised.by] = "idle"
    /\ ret[raised.by] = [op |-> "setup", ok |-> FALSE]

\* C11: an authorization probe that runs into its timeout makes setup() fail
\* with the AuthenticationTimeout error, which is a different error from the
\* one of a nonzero exit and from every other failure (it is raised for no
\* other reason), and no tunnel process is spawned.
C11_ProbeTimeoutIsItsOwnFailure ==
    /\ Call("auth", None, "TimeoutExpired") \in CallSet =>
          /\ SetupFailedWith("AuthenticationTimeout")
          /\ Spawns(calls) = <<>>
          /\ Call("auth", None, "nonzero") \notin CallSet
    /\ (raised.type # "none" /\ raised.cause = "AuthenticationTimeout") =>
          Call("auth", None, "TimeoutExpired") \in CallSet

C11_Witness ==
    /\ Call("auth", None, "TimeoutExpired") \in CallSet
    /\ SetupFailedWith("AuthenticationTimeout")

\* C12: when kubectl is not found, setup() fails with the tool-not-found
\* error after the one lookup: the authorization probe has not run, nothing
\* is spawned, and the lookup is not repeated.
C12_ToolNotFoundBeforeProbeAndSpawn ==
    Call("which", None, "missing") \in CallSet =>
        /\ calls = << Call("which", None, "missing") >>
        /\ SetupFailedWith("ToolNotFound")

C12_Witness ==
    /\ calls = << Call("which", None, "missing") >>
    /\ SetupFailedWith("ToolNotFound")
    /\ owns[raised.by]

\* instance i runs one iteration of the readiness loop
PollStep(i) ==
    /\ pc[i] = "su_wait"
    /\ pc'[i] # pc[i] \/ iter'[i] # iter[i]

\* C13: a poll iteration that finds the port unreachable and the instance's
\* tunnel process exited ends setup() in that very iteration, however much of
\* the budget is left, with the exited-early error built from the captured
\* stderr, and clears the handle.
C13_ExitedEarlyFailsAtOnce ==
    [][\A i \in Inst :
        (PollStep(i) /\ proc[i] # None /\ procs[proc[i]].st = "exited"
            /\ ~ IsPortInUse(envOf[i])) =>
            /\ pc'[i] = "idle" /\ ret'[i] = [op |-> "setup", ok |-> FALSE]
            /\ raised'.by = i /\ raised'.cause = "ProcessExitedEarly"
            /\ raised'.msg = (IF raised'.stderr = <<>> THEN <<"unknown error">>
                              ELSE Strip(raised'.stderr))
            /\ calls' = << Call("poll", proc[i], "exited"),
                           Call("communicate", proc[i], "read") >>
            /\ proc'[i] = None]_vars

C13_Witness ==
    /\ SetupFailedWith("ProcessExitedEarly")
    /\ raised.stderr = <<"d", " ">> /\ raised.msg = <<"d">>
    /\ proc[raised.by] = None
    /\ \E p \in Pids : calls[1] = Call("poll", p, "exited")

\* every process alive after the step was spawned by instance i: no other
\* instance has made any call yet
OnlySpawner(i) == \A j \in Inst \ {i} : Fresh(j)

\* C14: the poll iteration that uses up the budget with the instance's
\* tunnel process alive and the port unreachable kills that process, clears
\* the handle and ends setup() with the port-wait-timeout error built from
\* the captured stderr; no process this instance spawned keeps running.
C14_TimeoutKillsAndLeavesNothing ==
    [][\A i \in Inst :
        (PollStep(i) /\ iter[i] + 1 = WaitIterations
            /\ proc[i] # None /\ Alive(proc[i]) /\ ~ IsPortInUse(envOf[i])) =>
            /\ pc'[i] = "idle" /\ ret'[i] = [op |-> "setup", ok |-> FALSE]
            /\ raised'.by = i /\ raised'.cause = "PortWaitTimeout"
            /\ raised'.msg = OrDefault(Strip(raised'.stderr), "none")
            /\ Signals(calls') = << Call("kill", proc[i], "sent") >>
            /\ proc'[i] = None
            /\ procs'[proc[i]].st \notin {"silent", "listening"}
            /\ OnlySpawner(i) =>
                 \A q \in Pids : procs'[q].st \notin {"silent", "listening"}]_vars

\* the calls of setup() that only the lock winner makes
OwnerCalls(cs) == SelectSeq(cs, LAMBDA c : c.call \in {"which", "auth", "Popen"})

\* C15: a setup() refused the lock goes on without an error, never looks for
\* kubectl, never probes and never spawns; each of its poll iterations
\* returns as non-owner when the port is reachable, goes on while budget is
\* left, and ends with the port-wait-timeout error when the budget is used up.
C15_LockLoserOnlyPolls ==
    [][\A i \in Inst :
        /\ (pc[i] \in {"idle", "su_acquire"} /\ pc'[i] = "su_wait") =>
              /\ ~ owns'[i] /\ raised' = NoExc
              /\ calls' = << Call("acquire", None, "Timeout") >>
        /\ (PollStep(i) /\ ~ owns[i]) =>
              /\ OwnerCalls(calls') = <<>> /\ ~ owns'[i]
              /\ IF IsPortInUse(envOf[i])
                 THEN pc'[i] = "idle" /\ ret'[i] = [op |-> "setup", ok |-> TRUE]
                      /\ raised' = NoExc
                 ELSE IF iter[i] + 1 < WaitIterations
                 THEN pc'[i] = "su_wait" /\ iter'[i] = iter[i] + 1 /\ raised' = NoExc
                 ELSE pc'[i] = "idle" /\ ret'[i] = [op |-> "setup", ok |-> FALSE]
                      /\ raised'.by = i /\ raised'.cause = "PortWaitTimeout"]_vars

\* C16: every setup() in progress comes back to its caller, with a result
\* or with an error, whatever the tunnel processes and foreign listeners do;
\* the readiness loop never goes beyond its int(timeout / 0.5) = 20
\* iterations.
C16_SetupTerminates ==
    /\ [](/\ Iterations(DefaultTimeoutTenths) = 20
          /\ \A i \in Inst : iter[i] < WaitIterations /\ WaitIterations <= 20)
    /\ \A i \in Inst :
         (pc[i] \in {"su_acquire", "su_start", "su_wait"}) ~>
             (pc[i] = "idle" /\ ret[i].op = "setup")

C16_Witness ==
    /\ SetupFailedWith("PortWaitTimeout")
    /\ \E p \in Pids : Call("poll", p, "running") \in CallSet /\ procs[p].st # "listening"

\* main(): server.run() inside "try: ... except ConfigurationError", which
\* prints one line and returns 1; any other exception leaves main() with a
\* traceback
MainOutcome(type) ==
    CASE type = "none" -> "exit 0"
      [] type = "ConfigurationError" -> "exit 1"
      [] OTHER -> "traceback"

\* C17: whatever made setup() fail, the exception that reaches the caller is
\* a ConfigurationError, which main() turns into exit code 1.
C17_SetupFailuresAreConfigurationErrors ==
    \A i \in Inst :
        (raised.by = i /\ AfterFailedSetup(i)) =>
            /\ raised.cause \in {"ToolNotFound", "AuthenticationTimeout",
                                 "AuthenticationFailure", "ProcessExitedEarly",
                                 "PortWaitTimeout"}
            /\ raised.type = "ConfigurationError"
            /\ MainOutcome(raised.type) = "exit 1"

\* instance i makes the first step of an ensure_connection() call
EnsureStep(i) == Ready(i) /\ EnsureConnection(i)

\* instance i, inside ensure_connection(), leaves the start sequence
RestartStep(i) ==
    /\ pc[i] = "su_start" /\ ret[i].op = "ensure"
    /\ pc'[i] # "su_start"

\* C18: an ensure_connection() that finds the port reachable returns at
\* once: it spawns nothing, signals nothing, and the handle, the ownership
\* flag, the lock and every process are as they were.
C18_EnsureReachableIsNoOp ==
    [][\A i \in Inst :
        (Ready(i) /\ IsPortInUse(envOf[i]) /\ EnsureStep(i)) =>
            /\ calls' = <<>> /\ raised' = NoExc
            /\ proc' = proc /\ owns' = owns /\ fileLock' = fileLock /\ procs' = procs
            /\ pc'[i] = "idle" /\ ret'[i] = [op |-> "ensure", ok |-> TRUE]]_vars

C18_Witness ==
    \E i \in Inst :
        /\ pc[i] = "idle" /\ ret[i] = [op |-> "ensure", ok |-> TRUE]
        /\ IsPortInUse(envOf[i]) /\ owns[i] /\ proc[i] # None /\ Alive(proc[i])
        /\ fileLock[i] = "locked" /\ calls = <<>> /\ raised = NoExc

\* an owner's ensure_connection() finds the port unreachable and the
\* process of its handle exited: it goes on to the start sequence without
\* signalling or spawning anything yet
ExitedHandleGoesToStart(i) ==
    (Ready(i) /\ ~ IsPortInUse(envOf[i]) /\ owns[i] /\ proc[i] # None
        /\ procs[proc[i]].st = "exited" /\ EnsureStep(i)) =>
        /\ calls' = << Call("poll", proc[i], "exited") >>
        /\ pc'[i] = "su_start" /\ owns'[i] /\ procs' = procs

\* inside ensure_connection() nothing is spawned while it polls, the owner
\* stays owner, and the start sequence is not entered a second time
PollingSpawnsNothing(i) ==
    (pc[i] = "su_wait" /\ ret[i].op = "ensure" /\ owns[i]) =>
        /\ pc'[i] \in {"su_wait", "idle"}
        /\ owns'[i]
        /\ PollStep(i) => Spawns(calls') = <<>>

\* C19 as stated: with the port unreachable and the owned process exited,
\* ensure_connection() spawns exactly one new tunnel process, not zero and
\* not more, and the instance is owner afterwards.
C19_RestartSpawnsExactlyOne ==
    [][\A i \in Inst :
        /\ ExitedHandleGoesToStart(i)
        /\ (RestartStep(i) /\ owns[i] /\ proc[i] # None
               /\ procs[proc[i]].st = "exited") =>
              /\ Spawns(calls') = << Call("Popen", i, "started") >>
              /\ owns'[i]
        /\ PollingSpawnsNothing(i)]_vars

\* C19, amended: with the port unreachable and the owned process exited,
\* ensure_connection() runs the start sequence once; it spawns exactly one
\* new tunnel process unless the kubectl lookup or the authorization probe
\* fails, in which case it spawns none and raises that failure; it never
\* spawns more than one, and the instance is owner afterwards either way.
C19_RestartSpawnsOneUnlessStartFails ==
    [][\A i \in Inst :
        /\ ExitedHandleGoesToStart(i)
        /\ (RestartStep(i) /\ owns[i] /\ proc[i] # None
               /\ procs[proc[i]].st = "exited") =>
              /\ owns'[i]
              /\ IF raised' = NoExc
                 THEN /\ Spawns(calls') = << Call("Popen", i, "started") >>
                      /\ pc'[i] = "su_wait" /\ proc'[i] # None
                      /\ procs'[proc'[i]].st = "silent"
                 ELSE /\ Spawns(calls') = <<>>
                      /\ raised'.by = i
                      /\ raised'.cause \in {"ToolNotFound", "AuthenticationTimeout",
                                            "AuthenticationFailure"}
                      /\ pc'[i] = "idle" /\ ret'[i] = [op |-> "ensure", ok |-> FALSE]
        /\ PollingSpawnsNothing(i)]_vars

C19_Witness ==
    \E i \in Inst :
        /\ pc[i] = "su_wait" /\ ret[i].op = "ensure" /\ owns[i]
        /\ calls = << Call("which", None, "found"), Call("auth", None, "zero"),
                      Call("Popen", i, "started") >>
        /\ procs[i].st = "silent"

\* C20: an ensure_connection() that finds the port unreachable and the
\* process of its handle alive kills it and waits for it, up to 5 s, before
\* anything is spawned; when the replacement is spawned the process the
\* handle referred to is no longer alive, so the call leaves no second
\* process behind.
C20_KillAndWaitBeforeRespawn ==
    [][\A i \in Inst :
        /\ (Ready(i) /\ ~ IsPortInUse(envOf[i]) /\ proc[i] # None
               /\ Alive(proc[i]) /\ EnsureStep(i)) =>
              /\ calls' = << Call("poll", proc[i], "running"),
                             Call("kill", proc[i], "sent"),
                             [call |-> "wait", pid |-> proc[i], timeout |-> 5,
                              res |-> "exited"] >>
              /\ procs'[proc[i]].st = "exited"
              /\ pc'[i] = "su_start"
        /\ (RestartStep(i) /\ proc[i] # None /\ Spawns(calls') # <<>>) =>
              /\ ~ Alive(proc[i])
              /\ \A q \in OrphanPids : procs'[q] = procs[q]]_vars

C20_Witness ==
    \E i \in Inst :
        /\ pc[i] = "su_start" /\ ret[i].op = "ensure"
        /\ calls = << Call("poll", i, "running"), Call("kill", i, "sent"),
                      WaitCall(i, "exited") >>
        /\ procs[i].st = "exited"

\* the variables the lifecycle methods work on
broker == <<envOf, pc, owns, proc, fileLock, iter, ret, procs, ext, life>>

\* C21: get_config() answers in every lifecycle state, also in the middle
\* of another call; it makes no call on the outside world, raises nothing
\* and changes no variable of the instance, of the processes or of the
\* ports, and a second call right after the first returns the same value.
C21_GetConfigIsPure ==
    [][\A i \in Inst :
        (result'.op = "get_config" /\ result'.by = i) =>
            /\ calls' = <<>> /\ raised' = NoExc
            /\ UNCHANGED broker
            /\ (result.op = "get_config" /\ result.by = i) => result' = result]_vars

C21_Witness ==
    /\ result.op = "get_config"
    /\ AfterFailedSetup(result.by)
    /\ \E j \in Inst : AfterTeardown(j)

\* C23: health_check() returns what the port probe finds at that moment,
\* whoever owns the tunnel and whether or not the instance has a handle,
\* and changes nothing.
C23_HealthCheckIsThePortProbe ==
    [][\A i \in Inst :
        (result'.op = "health_check" /\ result'.by = i) =>
            /\ result'.val = << IsPortInUse(envOf[i]) >>
            /\ result'.val = << IsPortInUse(envOf[i])' >>
            /\ raised' = NoExc
            /\ UNCHANGED broker]_vars

C23_Witness ==
    /\ result.op = "health_check" /\ result.val = << TRUE >>
    /\ ~ owns[result.by] /\ proc[result.by] = None
    /\ \E j \in Inst : proc[j] # None /\ procs[proc[j]].st = "exited"

\* the number a string of decimal digits stands for
RECURSIVE DecimalValue(_)
DecimalValue(ds) ==
    IF ds = <<>> THEN 0 ELSE 10 * DecimalValue(SubSeq(ds, 1, Len(ds) - 1)) + ds[Len(ds)]

\* text is host followed by ":", the decimal form of port, and path
IsUrlOf(text, host, port, path) ==
    /\ Len(text) >= 5
    /\ SubSeq(text, 1, 3) = << "http://", host, ":" >>
    /\ text[Len(text)] = path
    /\ LET ds == SubSeq(text, 4, Len(text) - 1)
       IN  /\ \A k \in 1..Len(ds) : ds[k] \in 0..9
           /\ Len(ds) = 1 \/ ds[1] # 0
           /\ DecimalValue(ds) = port

\* C22 as stated: the base_url of every descriptor's configuration is
\* http://127.0.0.1:<local_port><api_path>.
C22_BaseUrlIsLoopbackAddress ==
    result.op = "config_of" =>
        IsUrlOf(result.val[2].base_url, "127.0.0.1",
                result.val[1].local_port, result.val[1].api_path)

\* C22, amended: the base_url of every descriptor's configuration is
\* http://localhost:<local_port><api_path>.
C22_BaseUrlIsLocalhost ==
    result.op = "config_of" =>
        IsUrlOf(result.val[2].base_url, "localhost",
                result.val[1].local_port, result.val[1].api_path)

C22_Witness ==
    /\ result.op = "config_of"
    /\ result.val[1].local_port = 8084 /\ result.val[1].api_path = "/app/rest/v4"
    /\ result.val[2].base_url = << "http://", "localhost", ":", 8, 0, 8, 4, "/app/rest/v4" >>

\* C24: in every catalog the loader returns, no two environments have the
\* same local_port.
C24_LoadedPortsAreDistinct ==
    (result.op = "load" /\ result.val[2].error = "none") =>
        LET cat == result.val[2].environments
        IN  \A j, k \in 1..Len(cat) : j # k => cat[j].local_port # cat[k].local_port

\* C25: constructing a broker for a name that is no key of the catalog fails
\* with an error and yields no instance, takes no lock and spawns nothing;
\* and an explicitly given catalog source that yields no environments is
\* rejected before any provider is constructed.
C25_UnknownEnvironmentFailsAtConstruction ==
    /\ result.op = "construct" =>
           LET environment == result.val[1]
               loaded == IF Len(result.val[2]) > 0
                         THEN [error |-> "none", environments |-> result.val[2]]
                         ELSE LoadEnvironmentsFromYaml(result.val[3])
               out == result.val[4]
           IN  (loaded.error # "none"
                   \/ \A k \in 1..Len(loaded.environments) :
                          loaded.environments[k].name # environment)
                   => /\ out.error # "none"
                      /\ out.instance = <<>>
                      /\ calls = <<>>
                      /\ \A i \in Inst : fileLock[i] = "none" /\ proc[i] = None
    /\ result.op = "get_provider" =>
           LET k8s_config == result.val[2]
               l == LoadEnvironmentsFromYaml(k8s_config.src)
               o == result.val[4]
           IN  (k8s_config.given /\ (l.error # "none" \/ l.environments = <<>>))
                   => /\ ~ o.constructed
                      /\ o.out.error # "none"
                      /\ o.out.instance = <<>>
                      /\ calls = <<>>

C25_Witness ==
    \/ /\ result.op = "construct"
       /\ Len(result.val[2]) > 0
       /\ \A k \in 1..Len(result.val[2]) : result.val[2][k].name # result.val[1]
       /\ result.val[4].error = "ValueError"
    \/ /\ result.op = "get_provider"
       /\ result.val[2].given /\ result.val[2].src.exists
       /\ result.val[2].src.data = <<>>
       /\ result.val[4].out.error = "ValueError"

\* the context string of an output is its part from i to j: the output
\* without the white space at its two ends
IsContextAt(stdout, i, j) ==
        /\ \A k \in 1..(i - 1) : stdout[k] \in Whitespace
        /\ \A k \in (j + 1)..Len(stdout) : stdout[k] \in Whitespace
        /\ i <= j => stdout[i] \notin Whitespace /\ stdout[j] \notin Whitespace
        /\ i > j => \A k \in 1..Len(stdout) : stdout[k] \in Whitespace

\* t contains "-env-" or ends with "-env"
HasEnvPattern(t, env) ==
    \/ \E i \in 1..Len(t), j \in 1..Len(t) : SubSeq(t, i, j) = << "-" >> \o env \o << "-" >>
    \/ \E i \in 1..Len(t) : SubSeq(t, i, Len(t)) = << "-" >> \o env

\* C26: detect_environment_from_context() does not raise when the context
\* command fails, is missing or times out; it returns a key of the catalog
\* only when the context string contains "-env-" or ends with "-env", and
\* None in every other case, command failure included.
C26_DetectNeverRaisesAndMatchesByDashes ==
    result.op = "detect" =>
        LET cmd == result.val[1]
            stdout == result.val[2]
            loaded == LoadEnvironmentsFromYaml(result.val[3])
            out == result.val[4]
        IN  /\ cmd # "ok" => out.error = "none" /\ out.value = <<>>
            /\ (cmd = "ok" /\ loaded.error = "none") =>
                   /\ out.error = "none"
                   /\ \A i \in 1..(Len(stdout) + 1), j \in 0..Len(stdout) :
                        IsContextAt(stdout, i, j) =>
                          LET t == SubSeq(stdout, i, j) IN
                          IF \E k \in 1..Len(loaded.environments) :
                                 HasEnvPattern(t, loaded.environments[k].name)
                          THEN /\ Len(out.value) = 1
                               /\ \E k \in 1..Len(loaded.environments) :
                                      /\ out.value[1] = loaded.environments[k].name
                                      /\ HasEnvPattern(t, out.value[1])
                          ELSE out.value = <<>>

C26_Witness ==
    /\ result.op = "detect"
    /\ result.val[1] = "ok"
    /\ result.val[2] = << "b", "-", "a", "b", " " >>
    /\ result.val[4].value = << << "a", "b" >> >>

\* instance i's setup() is called
SetupCalled(i) == pc[i] = "idle" /\ (SetupBegin(i) \/ SetupAcquire(i))

\* the provider and the processes are what they were
ProviderUntouched ==
    UNCHANGED <<envOf, pc, owns, proc, fileLock, iter, ret, procs, ext>>

\* C27: setup() is called only once the server is started, never by
\* create_server, and has returned before a request is served; teardown()
\* is called once when the lifespan exits, also when an exception ends it,
\* and never before setup().
C27_LifespanBracketsSetupAndTeardown ==
    [][\A i \in Inst :
        /\ SetupCalled(i) => life[i] = "starting" /\ ret[i].op = "none"
        /\ (life[i] = "none" /\ life'[i] # "none") =>
               life'[i] = "created" /\ ProviderUntouched /\ calls' = <<>>
        /\ (result'.op = "request" /\ result'.by = i) =>
               life[i] = "serving" /\ ret[i] = [op |-> "setup", ok |-> TRUE]
        /\ TeardownBegin(i) =>
               life[i] = "stopping" /\ ret[i] = [op |-> "setup", ok |-> TRUE]
        /\ (life[i] = "serving" /\ life'[i] # "serving") => life'[i] = "stopping"
        /\ (life[i] # "stopped" /\ life'[i] = "stopped") =>
               life[i] = "stopping" /\ pc[i] = "idle" /\ ret[i].op = "teardown"
        /\ life[i] = "stopped" => life'[i] = "stopped" /\ pc'[i] = "idle"
      ]_vars

C27_Witness ==
    \E i \in Inst :
        /\ life[i] = "stopped"
        /\ ret[i] = [op |-> "teardown", ok |-> TRUE]
        /\ owns[i] /\ proc[i] = None /\ fileLock[i] = "none"

\* C28: when setup() raises inside the lifespan the exception reaches the
\* server's starter, the server never serves, and teardown() is not called.
C28_SetupFailureStopsStartup ==
    [][\A i \in Inst :
        /\ (life[i] = "starting" /\ pc[i] = "idle" /\ ret[i] = [op |-> "setup", ok |-> FALSE]) =>
               /\ life'[i] \in {"starting", "failed"}
               /\ ~ TeardownBegin(i)
               /\ life'[i] = "failed" =>
                      /\ result'.op = "startup_failed" /\ result'.by = i
                      /\ raised'.by = i /\ raised'.type # "none"
        /\ life[i] = "failed" =>
               /\ life'[i] = "failed"
               /\ pc'[i] = "idle" /\ ret'[i] = [op |-> "setup", ok |-> FALSE]
               /\ ~ (result'.op = "request" /\ result'.by = i)
      ]_vars

C28_Witness ==
    \E i \in Inst : life[i] = "failed" /\ result.op = "startup_failed" /\ result.by = i

\* C29: a setup() called again by an instance that is the owner of a
\* listening tunnel leaves it the owner of that process and of the lock and
\* spawns nothing (so that its teardown() still terminates the process).
C29_SetupIsIdempotent ==
    [][\A i \in Inst :
        (/\ pc[i] = "su_acquire"
         /\ owns[i] /\ proc[i] # None /\ procs[proc[i]].st = "listening"
         /\ SetupAcquire(i)) =>
            /\ owns'[i]
            /\ fileLock'[i] = "locked"
            /\ proc'[i] = proc[i]
            /\ \A k \in 1..Len(calls') : calls'[k].call # "Popen"
      ]_vars

\* C30: an instance holds a process handle only for a process it spawned
\* itself (pid i is the process instance i spawned) and only while it is
\* the recorded owner holding the lock; and terminate, kill, wait, poll and
\* communicate reach a process only from the instance that spawned it.
\* The first part is stated of instances between calls, where it is not
\* disturbed by a lock object being replaced in the middle of a call.
C30_HandleOnlyWithOwnerAndLock ==
    /\ \A i \in Inst :
           (pc[i] = "idle" /\ proc[i] # None) =>
               proc[i] = i /\ owns[i] /\ fileLock[i] = "locked"
    /\ \A k \in 1..Len(calls) :
           calls[k].call \in {"terminate", "kill", "wait", "poll", "communicate"} =>
               \E i \in Inst : calls[k].pid = i /\ proc[i] \in {None, i}

\* how far into setup() a position is
Rank(at) ==
    CASE at = "su_acquire" -> 1
      [] at = "su_start" -> 2
      [] at = "su_wait" -> 3
      [] OTHER -> 0

\* C31: one setup() call spawns at most one tunnel process and never tries
\* again: the call only moves forward, the spawn is the one step from the
\* start to the readiness loop, and the first failure ends the call with
\* the error and without a spawn.
C31_OneSpawnNoRetry ==
    [][\A i \in Inst :
        /\ Len(Spawns(calls')) <= 1
        /\ (\E k \in 1..Len(calls') : calls'[k] = Call("Popen", i, "started")) =>
               pc[i] = "su_start" /\ pc'[i] = "su_wait" /\ raised' = NoExc
        /\ (Rank(pc[i]) > 0 /\ pc'[i] # pc[i]) =>
               pc'[i] = "idle" \/ Rank(pc'[i]) > Rank(pc[i])
        /\ (Rank(pc[i]) > 0 /\ raised'.by = i /\ raised'.type # "none") =>
               /\ pc'[i] = "idle"
               /\ ret'[i] = [op |-> "setup", ok |-> FALSE]
               /\ Spawns(calls') = <<>>
      ]_vars

C31_Witness ==
    \E i \in Inst :
        /\ AfterFailedSetup(i)
        /\ raised.by = i /\ raised.cause = "ProcessExitedEarly"
        /\ proc[i] = None

\* C32: after a setup() that failed the instance holds neither the lock of
\* its environment nor a process handle.
C32_FailedSetupHoldsNothing ==
    \A i \in Inst :
        AfterFailedSetup(i) => fileLock[i] # "locked" /\ proc[i] = None

\* C33: between calls, the ownership flag of an instance is true exactly
\* when the instance holds the lock of its environment; in particular it is
\* false after the owner's teardown().
C33_OwnerFlagIffLockHeld ==
    \A i \in Inst :
        pc[i] = "idle" => (owns[i] <=> fileLock[i] = "locked")

\* no instance holds the lock of environment e
LockIsFree(e) == \A j \in Inst : envOf[j] = e => fileLock[j] # "locked"

\* the step in which a teardown() of instance i returns
TeardownCompletes(i) ==
    /\ pc'[i] = "idle" /\ ret'[i].op = "teardown"
    /\ TeardownBegin(i) \/ TeardownRelease(i)

\* C34: when the teardown() of the instance that owns and holds the lock
\* has completed, the lock of its environment is free; and a setup() that
\* finds the lock free acquires ownership and, if the port is unreachable,
\* goes on to start a tunnel of its own.
C34_LockFreeAfterOwnerTeardown ==
    [][\A i \in Inst :
        /\ (owns[i] /\ fileLock[i] = "locked" /\ TeardownCompletes(i)) =>
               LockIsFree(envOf[i])'
        /\ (LockIsFree(envOf[i]) /\ SetupAcquire(i)) =>
               /\ calls' = << Call("acquire", None, "acquired") >>
               /\ owns'[i] /\ fileLock'[i] = "locked"
               /\ IF IsPortInUse(envOf[i])
                  THEN pc'[i] = "idle" /\ ret'[i] = [op |-> "setup", ok |-> TRUE]
                  ELSE pc'[i] = "su_start"
      ]_vars

C34_Witness ==
    \E i, j \in Inst :
        /\ i # j /\ envOf[i] = envOf[j]
        /\ AfterTeardown(i) /\ owns[i] /\ fileLock[i] = "none"
        /\ pc[j] = "idle" /\ ret[j] = [op |-> "setup", ok |-> TRUE]
        /\ owns[j] /\ fileLock[j] = "locked" /\ proc[j] = j

\* instance j completed setup() as a reuser and has not called teardown()
ReuserReady(j) ==
    pc[j] = "idle" /\ ret[j] = [op |-> "setup", ok |-> TRUE] /\ ~ owns[j]

\* C35 as stated: while some instance is Ready as a reuser, no listening
\* tunnel process of its environment is terminated or killed.
C35_TunnelStaysUpWhileReuserReady ==
    [][\A j \in Inst :
        ReuserReady(j) =>
            \A k \in 1..Len(calls') :
                ~ /\ calls'[k].call \in {"terminate", "kill"}
                  /\ procs[calls'[k].pid] = [st |-> "listening", env |-> envOf[j]]
      ]_vars

\* C35, amended: the teardown() of a reuser stops nothing and changes no
\* process, whatever the order; the teardown() of the owner that holds the
\* handle terminates the process, reusers or not.
C35_OnlyOwnerTeardownStopsTunnel ==
    [][\A i \in Inst :
        /\ (ReuserReady(i) /\ TeardownBegin(i)) =>
               /\ calls' = <<>>
               /\ pc'[i] = "idle" /\ ret'[i] = [op |-> "teardown", ok |-> TRUE]
               /\ UNCHANGED <<procs, proc, owns, fileLock>>
        /\ (owns[i] /\ proc[i] # None /\ TeardownBegin(i)) =>
               /\ calls' = << Call("terminate", proc[i], "sent") >>
               /\ pc'[i] = "td_wait"
      ]_vars

C35_Witness ==
    \E i, j \in Inst :
        /\ i # j /\ envOf[i] = envOf[j]
        /\ ReuserReady(j)
        /\ pc[i] = "td_wait" /\ owns[i] /\ proc[i] = i
        /\ calls = << Call("terminate", i, "sent") >>
        /\ procs[i].st = "listening"

\* C36: when the setup() of the owner returns successfully from the
\* readiness loop after it spawned, the process its handle refers to has
\* not exited.
C36_ReadyOnlyWithLiveProcess ==
    [][\A i \in Inst :
        (/\ pc[i] = "su_wait" /\ owns[i] /\ proc[i] # None
         /\ SetupPoll(i)
         /\ pc'[i] = "idle" /\ ret'[i] = [op |-> "setup", ok |-> TRUE]) =>
            /\ proc'[i] = proc[i]
            /\ procs'[proc[i]].st # "exited"
      ]_vars

\* some other instance holds the lock of instance i's environment
HeldBySameEnvironment(i) ==
    \E j \in Inst : j # i /\ envOf[j] = envOf[i] /\ fileLock[j] = "locked"

\* C37: ownership is per environment name: an acquire fails, and a setup()
\* goes waiting as non-owner, only when an instance of the same environment
\* holds the lock; locks held for other environments do not matter.
C37_OwnershipIsPerEnvironment ==
    [][\A i \in Inst :
        SetupAcquire(i) =>
            IF HeldBySameEnvironment(i)
            THEN /\ calls' = << Call("acquire", None, "Timeout") >>
                 /\ ~ owns'[i] /\ pc'[i] = "su_wait"
            ELSE /\ calls' = << Call("acquire", None, "acquired") >>
                 /\ owns'[i] /\ fileLock'[i] = "locked"
                 /\ pc'[i] # "su_wait"
      ]_vars

C37_Witness ==
    \E i, j \in Inst :
        /\ envOf[i] # envOf[j]
        /\ fileLock[i] = "locked" /\ owns[i] /\ proc[i] = i
        /\ fileLock[j] = "locked" /\ owns[j] /\ pc[j] = "su_start"
        /\ calls = << Call("acquire", None, "acquired") >>

\* the items of a dict kept in insertion order
Items(d) == { d[n] : n \in 1..Len(d) }

\* text[i..j] is one comma-separated part of text (empty when j = i - 1)
IsPair(text, i, j) ==
    /\ i \in 1..(Len(text) + 1)
    /\ j \in (i - 1)..Len(text)
    /\ (i = 1 \/ text[i - 1] = ",")
    /\ (j = Len(text) \/ text[j + 1] = ",")
    /\ \A n \in i..j : text[n] # ","

\* c is the first colon of the part text[i..j]
FirstColon(text, i, j, c) ==
    /\ c \in i..j
    /\ text[c] = ":"
    /\ \A n \in i..(c - 1) : text[n] # ":"

\* the headers a UNBLU_TRUSTED_HEADERS value stands for: one per part with a
\* colon, name and value stripped, the last part winning for a repeated name
HeaderItems(env) ==
    IF ~ env.set THEN {}
    ELSE LET text == env.text
             At == { p \in (1..(Len(text) + 1)) \X (0..Len(text)) \X (1..Len(text)) :
                        IsPair(text, p[1], p[2]) /\ FirstColon(text, p[1], p[2], p[3]) }
             HeaderName(p) == Strip(SubSeq(text, p[1], p[3] - 1))
             HeaderValue(p) == Strip(SubSeq(text, p[3] + 1, p[2]))
         IN  { << HeaderName(p), HeaderValue(p) >> :
                 p \in { q \in At : \A r \in At :
                            HeaderName(r) = HeaderName(q) => r[1] <= q[1] } }

\* C38: DefaultConnectionProvider.get_config() applies exactly one credential
\* source with fixed precedence: non-empty trusted headers win over an API key,
\* an API key (as Authorization: Bearer header) wins over username+password
\* (basic auth), basic auth is used only when both username and password are
\* present, and a constructor argument takes precedence over the environment
\* variable of the same setting. A trusted-headers text stands for the headers
\* of its comma-separated name:value parts.
C38_OneCredentialSourceByPrecedence ==
    /\ result.op = "parse_headers" =>
         LET env == result.val[1]
             out == result.val[2]
         IN  /\ Items(out) = HeaderItems(env)
             /\ \A m, n \in 1..Len(out) : out[m][1] = out[n][1] => m = n
    /\ result.op = "default_config" =>
         LET in == result.val[1]
             cfg == result.val[2]
             api_key == IF Truthy(in.api_key) THEN in.api_key ELSE in.env_api_key
             username == IF Truthy(in.username) THEN in.username ELSE in.env_username
             password == IF Truthy(in.password) THEN in.password ELSE in.env_password
             trusted == IF in.trusted_headers.given THEN Items(in.trusted_headers.dict)
                        ELSE HeaderItems(in.env_trusted_headers)
             bearer == << << <<"Authorization">>, << "Bearer ", api_key >> >> >>
             basic == << "basic", username, password >>
         IN  /\ ~ (cfg.headers # <<>> /\ cfg.auth # <<>>)
             /\ trusted # {} => Items(cfg.headers) = trusted /\ cfg.auth = <<>>
             /\ trusted = {} /\ Truthy(api_key) => cfg.headers = bearer /\ cfg.auth = <<>>
             /\ trusted = {} /\ ~ Truthy(api_key) /\ Truthy(username) /\ Truthy(password)
                    => cfg.headers = <<>> /\ cfg.auth = basic
             /\ cfg.auth # <<>> => Truthy(username) /\ Truthy(password)
             /\ trusted = {} /\ ~ Truthy(api_key) /\ ~ (Truthy(username) /\ Truthy(password))
                    => cfg.headers = <<>> /\ cfg.auth = <<>>
             /\ in.base_url # Unset => cfg.base_url = in.base_url
             /\ in.base_url = Unset /\ in.env_base_url # Unset
                    => cfg.base_url = in.env_base_url

\* all three sources are configured, from both constructor and environment,
\* and the trusted headers of the environment are the ones applied
C38_Witness ==
    /\ result.op = "default_config"
    /\ ~ result.val[1].trusted_headers.given
    /\ result.val[1].env_trusted_headers.text = << "k", ":", "v" >>
    /\ result.val[1].api_key = "ka"
    /\ result.val[1].env_api_key = "ke"
    /\ result.val[1].username = "ua"
    /\ result.val[1].password = "pa"
    /\ result.val[2].headers = << << <<"k">>, <<"v">> >> >>
    /\ result.val[2].auth = <<>>

====
